---- MODULE Spec2Model ----
(***************************************************************************)
(* Cortex (wayfind/Cortex): the Probe's delivery substrate (local queue,   *)
(* queue sender, retry combinator) and inspection pipeline (classifier,    *)
(* auto-fixer, executor), modelled from the Python sources under src/.     *)
(*                                                                         *)
(* Specifications:                                                         *)
(*   Spec        queue + QueueSender (sender loop, flush, crash/restart)   *)
(*   LiveSpec    the same without crashes, with the scheduler's fairness   *)
(*   QueueSpec   LocalQueueManager driven call by call, with a clock       *)
(*   BacklogSpec LocalQueueManager under a long delivery backlog           *)
(*   RetrySpec   retry_async over every sequence of call outcomes          *)
(*   ProbeSpec   ProbeExecutor.execute / send_report                       *)
(***************************************************************************)
EXTENDS Integers, Sequences, FiniteSets, TLC

VARIABLES
    queue_items,   \* table queue_items: id -> row
    lastrowid,     \* AUTOINCREMENT high-water mark of queue_items.id
    now,           \* the clock, in days
    running,       \* QueueSender._running
    sender_pc,     \* per sender coroutine: "idle" | "gather"
    tasks,         \* per sender: item id -> state of its _send_one_item task
    cycles,        \* history: per item, sender-loop batches that selected it
    crashes,       \* history: process crashes so far
    posts,         \* history: per item, the POSTs made for it
    fl,            \* history: the items pending when flush() was called, the
                   \* passes of flush that selected each, what ran beside it
    r_max,         \* retry_async: config.max_attempts
    r_attempt,     \* retry_async: the loop variable attempt
    r_hist,        \* history: how each call of func ended, in order
    r_state,       \* retry_async: "loop" | "returned" | "raised"
    r_error,       \* the exception retry_async raised
    p_pc,          \* ProbeExecutor.execute / send_report: where the run is
    p_metrics,     \* system_info
    p_issues,      \* issues
    p_classified,  \* classified_issues
    p_todo,        \* L1 issues the fix loop has not reached yet
    p_fixed,       \* fixed_issues
    p_report,      \* the ProbeReport of the run
    p_upload,      \* how send_report's POST ended
    s_issued,          \* execution ids execute_once has generated so far
    s_phase,           \* per execution id: where its execute_once / task is
    s_force,           \* per execution id: the force argument of its call
    s_last,            \* how the latest call of execute_once ended
    schedule,          \* the APScheduler, its cron job, the _paused flag
    current_execution, \* ClaudeExecutor.current_execution (0: None)
    ex_trace,          \* history: per execution id, the statuses its result took
    execution_history, \* ProbeSchedulerService.execution_history
    agents,            \* table agents: id -> row
    m_now,             \* the Monitor's clock, in minutes
    hb,                \* the heartbeat request being handled
    sw,                \* the heartbeat checker's sweep
    announced,         \* history: per agent, agent_status_changed events
                       \* published since its last heartbeat
    swept_stale,       \* history: per agent, a sweep that read it after its
                       \* timeout had elapsed has ended since its last heartbeat
    reports,           \* table reports, in id order
    alerts,            \* table alerts, in id order
    ing,               \* the receive_report request being handled
    agg,               \* per worker, the L3 part of an ingest being handled
    areq,              \* the acknowledge and the resolve request being handled
    agg_hist,          \* history: ingests started, whether two overlapped,
                       \* status requests received and the last answer given
    cache,             \* TTLCache._cache: key -> value and expiry
    view,              \* the answer to the last read (cache.get or a cached view)
    c_last,            \* history: per key the last set and whether a delete,
                       \* clear or matching clear_pattern has followed it
    active_connections, \* WebSocketManager.active_connections
    ws_open,           \* per connection: whether its client is still there
    bc,                \* the broadcast calls: position in the loop, pending send
    received,          \* per connection: the events handed to it, in order
    rd,                \* a cluster overview request between its queries
    de,                \* table decisions and the calls of analyze_and_decide
    tg                 \* the TelegramNotifier and the requests it has made

queueVars == <<queue_items, lastrowid, now>>
senderVars == <<running, sender_pc, tasks, cycles, crashes, posts, fl>>
deliveryVars == <<queueVars, senderVars>>
retryVars == <<r_max, r_attempt, r_hist, r_state, r_error>>
probeVars == <<p_pc, p_metrics, p_issues, p_classified, p_todo, p_fixed, p_report, p_upload>>
schedVars == <<s_issued, s_phase, s_force, s_last, schedule, current_execution, ex_trace,
               execution_history>>
heartbeatVars == <<agents, m_now, hb, sw, announced, swept_stale>>
ingestVars == <<reports, alerts, ing>>
alertVars == <<agg, areq, agg_hist>>
cacheVars == <<cache, view, c_last>>
serviceVars == <<alertVars, cacheVars>>
wsVars == <<active_connections, ws_open, bc, received>>
readVars == <<rd>>
engineVars == <<de>>
notifierVars == <<tg>>
monitorVars == <<heartbeatVars, ingestVars, serviceVars, wsVars, readVars, engineVars,
                 notifierVars>>
notDelivery == <<retryVars, probeVars, schedVars, monitorVars>>
notRetry == <<deliveryVars, probeVars, schedVars, monitorVars>>
notProbe == <<deliveryVars, retryVars, schedVars, monitorVars>>
notSched == <<deliveryVars, retryVars, probeVars, monitorVars>>
\* what the monitor's HTTP handlers leave alone
notMonitor == <<deliveryVars, retryVars, probeVars, schedVars, wsVars, readVars,
               engineVars, notifierVars>>
notWs == <<deliveryVars, retryVars, probeVars, schedVars, heartbeatVars, ingestVars,
           serviceVars, readVars, engineVars, notifierVars>>
notRead == <<deliveryVars, retryVars, probeVars, schedVars, wsVars, engineVars,
            notifierVars>>
notEngine == <<deliveryVars, retryVars, probeVars, schedVars, heartbeatVars, ingestVars,
               serviceVars, wsVars, readVars, notifierVars>>
notNotifier == <<deliveryVars, retryVars, probeVars, schedVars, heartbeatVars,
                 ingestVars, serviceVars, wsVars, readVars, engineVars>>
notHeartbeat == <<notMonitor, ingestVars, serviceVars>>
notAgents == <<notMonitor, ingestVars, alertVars, view, c_last>>
notIngest == <<notMonitor, serviceVars>>
vars == <<deliveryVars, retryVars, probeVars, schedVars, monitorVars>>

----------------------------------------------------------------------------
(* Bounds of the model and program constants *)

\* ids handed out by enqueue in one behaviour of QueueSpec
MaxItems == 2
\* ids handed out by enqueue in one behaviour of Spec and LiveSpec
MaxQueued == 1
\* process crashes in one behaviour
MaxCrashes == 1
\* LocalQueueManager(max_retry_count=...), default 5
max_retry_count == 2
\* LocalQueueManager(max_queue_size=...), default 1000
max_queue_size == 1
\* QueueSender(batch_size=...), default 10
batch_size == 2
\* days the clock can advance
MaxDay == 2
\* "+ 100" in _cleanup_if_full
Slack == 100
\* FAST_RETRY_CONFIG.max_attempts
FastMaxAttempts == 3
\* largest RetryConfig.max_attempts tried in RetrySpec
MaxAttempts == 3
\* findings handed to one inspection besides the threshold rules' own
MaxFindings == 1
\* execution ids execute_once generates in one behaviour
MaxExecutions == 3
\* ProbeSchedulerService.max_history, 100 in the code
max_history == 2
\* agent ids known to a behaviour
MaxAgents == 2
\* minutes the Monitor's clock can reach
MaxTime == 3
\* HeartbeatChecker(timeout_minutes=...), 5 in the code
timeout_minutes == 1
\* sweeps of the heartbeat checker in one behaviour
MaxSweeps == 2
\* reports ingested in one behaviour
MaxReports == 2
\* acknowledge and resolve requests in one behaviour
MaxStatusRequests == 2
\* reads answered in one behaviour
MaxReads == 2
\* the longest ttl a cache entry is stored with
MaxTtl == 2
\* the addresses a request's session object can have
MaxSessions == 2
\* websocket clients
MaxConnections == 2
\* broadcast calls in one behaviour
MaxBroadcasts == 2
\* issues in one ingested report
MaxIssues == 2
\* AlertAggregator.DEDUP_WINDOW_MINUTES, 30 in the code
DEDUP_WINDOW_MINUTES == 1
\* PATIENT_RETRY_CONFIG.max_attempts
PatientMaxAttempts == 5

----------------------------------------------------------------------------
(* retry.py: errors and the retry loop *)

\* A call outcome: "ok", or an exception. kind is the exception class,
\* code the response status of an HTTPStatusError (0 otherwise).
Ok == [kind |-> "ok", code |-> 0]

Err(kind, code) == [kind |-> kind, code |-> code]

\* httpx class hierarchy, as far as isinstance() in is_retryable_error sees it:
\* ConnectError, ReadError are NetworkErrors; ConnectTimeout, ReadTimeout are
\* TimeoutExceptions; RemoteProtocolError is a ProtocolError (neither).
ConnectErrorKinds == {"ConnectError"}

TimeoutKinds == {"ConnectTimeout", "ReadTimeout"}

NetworkErrorKinds == {"ConnectError", "ReadError"}

ProtocolErrorKinds == {"RemoteProtocolError"}

OtherKinds == {"ValueError"}

StatusCodes == {400, 404, 429, 499, 500, 503, 599, 600}

Errors ==
    {Err(k, 0) : k \in ConnectErrorKinds \cup TimeoutKinds \cup NetworkErrorKinds
                       \cup ProtocolErrorKinds \cup OtherKinds}
    \cup {Err("HTTPStatusError", c) : c \in StatusCodes}

Outcomes == {Ok} \cup Errors

is_retryable_error_no429(e) ==
    \/ e.kind \in ConnectErrorKinds \cup TimeoutKinds \cup NetworkErrorKinds
                    \cup ProtocolErrorKinds
    \/ /\ e.kind = "HTTPStatusError"
       /\ 500 <= e.code /\ e.code < 600

is_retryable_error(e) ==
    \/ e.kind \in ConnectErrorKinds \cup TimeoutKinds \cup NetworkErrorKinds
                    \cup ProtocolErrorKinds
    \/ /\ e.kind = "HTTPStatusError"
       /\ \/ 500 <= e.code /\ e.code < 600
          \/ e.code = 429

\* One pass of the body of retry_async's for loop, for the call numbered
\* attempt whose outcome is o: "return", "raise" or "sleep" (then loop again).
retry_step_off_by_one(attempt, o, max_attempts) ==
    IF o = Ok THEN "return"
    ELSE IF ~is_retryable_error(o) THEN "raise"
    ELSE IF attempt > max_attempts THEN "raise"
    ELSE "sleep"

retry_step(attempt, o, max_attempts) ==
    IF o = Ok THEN "return"
    ELSE IF ~is_retryable_error(o) THEN "raise"
    ELSE IF attempt >= max_attempts THEN "raise"
    ELSE "sleep"

\* retry_async(func, config=...) run to its end, the k-th call of func
\* ending as outs[k]: what it does ("return" or "raise"), the exception it
\* raises, and the calls it made. With max_attempts < 1 the loop body never
\* runs and the function falls through, returning None.
RECURSIVE retry_from(_, _, _)
retry_from(attempt, outs, max_attempts) ==
    IF attempt > max_attempts
    THEN [result |-> "return", error |-> Ok, calls |-> attempt - 1]
    ELSE LET r == retry_step(attempt, outs[attempt], max_attempts)
         IN IF r = "sleep"
            THEN retry_from(attempt + 1, outs, max_attempts)
            ELSE [result |-> r, error |-> outs[attempt], calls |-> attempt]

retry_async(outs, max_attempts) == retry_from(1, outs, max_attempts)

\* the outcomes the model lets one POST of the sender have: 2xx, a retryable
\* error, a non-retryable one
SendOutcomes == {Ok, Err("ConnectError", 0), Err("HTTPStatusError", 404)}

\* every way retry_async(_make_request, config=FAST_RETRY_CONFIG) can end
SendResults ==
    {retry_async(outs, FastMaxAttempts) : outs \in [1..FastMaxAttempts -> SendOutcomes]}

----------------------------------------------------------------------------
(* queue_manager.py: LocalQueueManager over the table q *)

Terminal == {"sent", "failed"}

\* last_error is NULL until a failure stores str(e); the model stores e
NoError == [kind |-> "none", code |-> 0]

Row(payload, day) ==
    [status |-> "pending", retry_count |-> 0, created_at |-> day,
     payload |-> payload, last_error |-> NoError]

\* ORDER BY created_at ASC (rows of one timestamp in rowid order)
Older(q, a, b) ==
    \/ q[a].created_at < q[b].created_at
    \/ q[a].created_at = q[b].created_at /\ a < b

\* the first n ids of S in that order (LIMIT n)
Oldest(q, S, n) == {i \in S : Cardinality({j \in S : Older(q, j, i)}) < n}

get_pending_items_any_count(q, limit) ==
    Oldest(q, {i \in DOMAIN q : q[i].status = "pending"}, limit)

get_pending_items(q, limit) ==
    Oldest(q, {i \in DOMAIN q : /\ q[i].status = "pending"
                               /\ q[i].retry_count < max_retry_count}, limit)

mark_as_sending(q, id) ==
    IF id \in DOMAIN q THEN [q EXCEPT ![id].status = "sending"] ELSE q

mark_as_sent(q, id) ==
    IF id \in DOMAIN q THEN [q EXCEPT ![id].status = "sent"] ELSE q

mark_as_failed_no_count(q, id, error) ==
    IF id \in DOMAIN q
    THEN [q EXCEPT ![id].last_error = error, ![id].status = "pending"]
    ELSE q

mark_as_failed_late_cap(q, id, error) ==
    IF id \in DOMAIN q
    THEN LET n == q[id].retry_count + 1
         IN [q EXCEPT ![id].retry_count = n,
                      ![id].last_error = error,
                      ![id].status = IF n > max_retry_count THEN "failed"
                                     ELSE "pending"]
    ELSE q

\* UPDATE retry_count + 1, last_error; then failed at the cap, else pending.
\* With no such row the UPDATEs change nothing (and the log line raises).
mark_as_failed(q, id, error) ==
    IF id \in DOMAIN q
    THEN LET n == q[id].retry_count + 1
         IN [q EXCEPT ![id].retry_count = n,
                      ![id].last_error = error,
                      ![id].status = IF n >= max_retry_count THEN "failed"
                                     ELSE "pending"]
    ELSE q

Without(q, gone) == [i \in DOMAIN q \ gone |-> q[i]]

cleanup_if_full_any_status(q) ==
    LET total == Cardinality(DOMAIN q)
    IN IF total >= max_queue_size
       THEN Without(q, Oldest(q, DOMAIN q, total - max_queue_size + Slack))
       ELSE q

cleanup_if_full(q) ==
    LET total == Cardinality(DOMAIN q)
        to_delete == total - max_queue_size + Slack
    IN IF total >= max_queue_size
       THEN Without(q, Oldest(q, {i \in DOMAIN q : q[i].status \in Terminal},
                              to_delete))
       ELSE q

\* enqueue: prune, then INSERT a pending row under the next rowid
enqueue(q, id, payload, day) ==
    LET kept == cleanup_if_full(q)
    IN [i \in DOMAIN kept \cup {id} |->
            IF i = id THEN Row(payload, day) ELSE kept[i]]

\* cutoff = datetime.now() - days, compared as text with created_at:
\* "YYYY-MM-DD hh:mm:ss" < "YYYY-MM-DDThh:mm:ss" holds whenever the dates
\* are equal (" " sorts before "T"), so a row created on the cutoff's own
\* date is already "older".
cleanup_old_items(q, days, today) ==
    Without(q, {i \in DOMAIN q : /\ q[i].status \in Terminal
                                 /\ q[i].created_at <= today - days})

\* payloads are serialized ProbeReports
NoReport == [status |-> "none", issues |-> <<>>, actions_taken |-> <<>>]

SampleReport == [status |-> "healthy", issues |-> <<>>, actions_taken |-> <<>>]

Payloads == {SampleReport}

Days == {0, 1}

----------------------------------------------------------------------------
(* Initial state: after LocalQueueManager() and QueueSender() are built *)

Senders == {"loop", "flush"}

NoTasks == [s \in Senders |-> <<>>]

EmptyQueue == <<>>

QueueInit ==
    /\ queue_items = EmptyQueue
    /\ lastrowid = 0
    /\ now = 0

\* no flush() has been called
NoFlush == [at_call |-> <<>>, cycles |-> <<>>, no_enqueue |-> TRUE, no_loop |-> TRUE]

SenderInit ==
    /\ running = FALSE
    /\ sender_pc = [s \in Senders |-> "idle"]
    /\ tasks = NoTasks
    /\ cycles = <<>>
    /\ posts = <<>>
    /\ fl = NoFlush
    /\ crashes = 0

----------------------------------------------------------------------------
(* LocalQueueManager called by its users *)

\* enqueue(endpoint, payload), while fewer than limit ids were handed out
EnqueueUpTo(limit, payload) ==
    /\ lastrowid < limit
    /\ lastrowid' = lastrowid + 1
    /\ queue_items' = enqueue(queue_items, lastrowid + 1, payload, now)
    /\ cycles' = Append(cycles, 0)
    /\ posts' = Append(posts, 0)
    /\ fl' = [fl EXCEPT !.no_enqueue = FALSE]
    /\ UNCHANGED <<notDelivery, now, running, sender_pc, tasks, crashes>>

\* the producer keeps enqueueing: one id past capacity plus slack
BacklogEnqueue ==
    EnqueueUpTo(max_queue_size + Slack + 1, SampleReport)

\* a delivery of the oldest pending item succeeds: it is marked sent
\* (the Monitor is reachable for the first MaxItems items only)
DeliverOldest ==
    \E id \in get_pending_items(queue_items, 1) :
        /\ id <= MaxItems
        /\ queue_items' = mark_as_sent(mark_as_sending(queue_items, id), id)
        /\ UNCHANGED <<notDelivery, lastrowid, now, senderVars>>

ApiEnqueue ==
    \E payload \in Payloads : EnqueueUpTo(MaxItems, payload)

Enqueue ==
    \E payload \in Payloads : EnqueueUpTo(MaxQueued, payload)

MarkAsSending ==
    \E id \in DOMAIN queue_items :
        /\ queue_items' = mark_as_sending(queue_items, id)
        /\ UNCHANGED <<notDelivery, lastrowid, now, senderVars>>

MarkAsSent ==
    \E id \in DOMAIN queue_items :
        /\ queue_items' = mark_as_sent(queue_items, id)
        /\ UNCHANGED <<notDelivery, lastrowid, now, senderVars>>

\* (the model stops counting one failure past the cap)
MarkAsFailed ==
    \E id \in DOMAIN queue_items, e \in SendOutcomes \ {Ok} :
        /\ queue_items[id].retry_count <= max_retry_count
        /\ queue_items' = mark_as_failed(queue_items, id, e)
        /\ UNCHANGED <<notDelivery, lastrowid, now, senderVars>>

CleanupOldItems ==
    \E days \in Days :
        /\ queue_items' = cleanup_old_items(queue_items, days, now)
        /\ UNCHANGED <<notDelivery, lastrowid, now, senderVars>>

Tick ==
    /\ now < MaxDay
    /\ now' = now + 1
    /\ UNCHANGED <<notDelivery, queue_items, lastrowid, senderVars>>

----------------------------------------------------------------------------
(* queue_sender.py: QueueSender *)

\* A task of asyncio.gather: "created" (not yet run) or "sending" (the item
\* is marked sending and retry_async(_make_request) is in flight). A
\* finished task leaves tasks[s].
NewTasks(items) == [i \in items |-> "created"]

Bump(h, items) == [i \in DOMAIN h |-> IF i \in items THEN h[i] + 1 ELSE h[i]]

\* start(): _running = True and the loop task is created
Start ==
    /\ ~running
    /\ running' = TRUE
    /\ UNCHANGED <<notDelivery, queueVars, sender_pc, tasks, cycles, crashes, posts, fl>>

\* _sender_loop -> _process_batch, up to the await of gather
ProcessBatch ==
    LET items == get_pending_items(queue_items, batch_size)
    IN /\ running
       /\ sender_pc["loop"] = "idle"
       /\ items # {}
       /\ tasks' = [tasks EXCEPT !["loop"] = NewTasks(items)]
       /\ sender_pc' = [sender_pc EXCEPT !["loop"] = "gather"]
       /\ cycles' = Bump(cycles, items)
       /\ fl' = [fl EXCEPT !.no_loop = FALSE]
       /\ UNCHANGED <<notDelivery, queueVars, running, crashes, posts>>

\* gather returned: the batch is logged and the loop sleeps send_interval
LoopSleep ==
    /\ sender_pc["loop"] = "gather"
    /\ tasks["loop"] = <<>>
    /\ sender_pc' = [sender_pc EXCEPT !["loop"] = "idle"]
    /\ UNCHANGED <<notDelivery, queueVars, running, tasks, cycles, crashes, posts, fl>>

\* what fl records when flush() is called and its first pass selects items
FlushCalled(q, items, no_loop) ==
    LET pending == get_pending_items(q, Cardinality(DOMAIN q))
    IN  [at_call |-> [i \in pending |-> q[i].retry_count],
         cycles |-> [i \in pending |-> IF i \in items THEN 1 ELSE 0],
         no_enqueue |-> TRUE,
         no_loop |-> no_loop]

\* flush() with `if processed: break` after the first gather
FlushIter_one_pass ==
    LET items == get_pending_items(queue_items, batch_size)
    IN /\ tasks["flush"] = <<>>
       /\ IF items = {} \/ sender_pc["flush"] = "gather"
          THEN /\ sender_pc["flush"] = "gather"
               /\ sender_pc' = [sender_pc EXCEPT !["flush"] = "idle"]
               /\ tasks' = tasks
               /\ fl' = fl
          ELSE /\ sender_pc' = [sender_pc EXCEPT !["flush"] = "gather"]
               /\ tasks' = [tasks EXCEPT !["flush"] = NewTasks(items)]
               /\ fl' = FlushCalled(queue_items, items, tasks["loop"] = <<>>)
       /\ UNCHANGED <<notDelivery, queueVars, running, cycles, crashes, posts>>

\* flush(): one pass of its while loop, entered at the call or when the
\* previous gather returned; an empty selection ends the flush
FlushIter ==
    LET items == get_pending_items(queue_items, batch_size)
    IN /\ tasks["flush"] = <<>>
       /\ IF items = {}
          THEN /\ sender_pc["flush"] = "gather"
               /\ sender_pc' = [sender_pc EXCEPT !["flush"] = "idle"]
               /\ tasks' = tasks
               /\ fl' = fl
          ELSE /\ sender_pc' = [sender_pc EXCEPT !["flush"] = "gather"]
               /\ tasks' = [tasks EXCEPT !["flush"] = NewTasks(items)]
               /\ fl' = IF sender_pc["flush"] = "idle"
                        THEN FlushCalled(queue_items, items, tasks["loop"] = <<>>)
                        ELSE [fl EXCEPT !.cycles = Bump(@, items)]
       /\ UNCHANGED <<notDelivery, queueVars, running, cycles, crashes, posts>>

\* _send_one_item up to its first suspension: mark_as_sending, then the
\* first POST of retry_async(_make_request, FAST_RETRY_CONFIG)
TaskStart ==
    \E s \in Senders : \E i \in DOMAIN tasks[s] :
        /\ tasks[s][i] = "created"
        /\ queue_items' = mark_as_sending(queue_items, i)
        /\ tasks' = [tasks EXCEPT ![s][i] = "sending"]
        /\ UNCHANGED <<notDelivery, lastrowid, now, running, sender_pc, cycles, crashes,
                       posts, fl>>

\* retry_async ends, its POSTs having ended as outs: on a return the item
\* is marked sent, on an exception mark_as_failed(id, str(e))
TaskResponse ==
    \E s \in Senders : \E i \in DOMAIN tasks[s] :
    \E r \in SendResults :
        LET rest == [j \in DOMAIN tasks[s] \ {i} |-> tasks[s][j]]
        IN /\ tasks[s][i] = "sending"
           /\ queue_items' = IF r.result = "return"
                             THEN mark_as_sent(queue_items, i)
                             ELSE mark_as_failed(queue_items, i, r.error)
           /\ tasks' = [tasks EXCEPT ![s] = rest]
           /\ posts' = [posts EXCEPT ![i] = @ + r.calls]
           /\ UNCHANGED <<notDelivery, lastrowid, now, running, sender_pc, cycles, crashes,
                          fl>>

\* the process dies and is started again: the table survives, the
\* coroutines and their tasks do not; the new QueueSender is not yet started
Crash ==
    /\ crashes < MaxCrashes
    /\ running' = FALSE
    /\ sender_pc' = [s \in Senders |-> "idle"]
    /\ tasks' = NoTasks
    /\ crashes' = crashes + 1
    /\ UNCHANGED <<notDelivery, queueVars, cycles, posts, fl>>

----------------------------------------------------------------------------
(* retry.py: retry_async, one call of func at a time *)

\* a call retry_async(func, config=RetryConfig(max_attempts=r_max))
RetryInit ==
    /\ r_max \in 0..MaxAttempts
    /\ r_attempt = 1
    /\ r_hist = <<>>
    /\ r_state = "loop"
    /\ r_error = Ok

\* no call of retry_async is modelled
RetryIdle ==
    /\ r_max = 0
    /\ r_attempt = 1
    /\ r_hist = <<>>
    /\ r_state = "idle"
    /\ r_error = Ok

\* one pass of the for loop: func is awaited and ends as o
RetryCall ==
    \E o \in Outcomes :
        LET r == retry_step(r_attempt, o, r_max)
        IN /\ r_state = "loop"
           /\ r_attempt <= r_max
           /\ r_hist' = Append(r_hist, o)
           /\ r_state' = CASE r = "return" -> "returned"
                           [] r = "raise" -> "raised"
                           [] r = "sleep" -> "loop"
           /\ r_error' = IF r = "raise" THEN o ELSE r_error
           /\ r_attempt' = IF r = "sleep" THEN r_attempt + 1 ELSE r_attempt
           /\ UNCHANGED <<notRetry, r_max>>

\* range(1, max_attempts + 1) is exhausted without a return or a raise
\* (only when it is empty): last_exception is None, the function returns None
RetryFallThrough ==
    /\ r_state = "loop"
    /\ r_attempt > r_max
    /\ r_state' = IF r_hist = <<>> THEN "returned" ELSE "raised"
    /\ r_error' = IF r_hist = <<>> THEN r_error ELSE r_hist[Len(r_hist)]
    /\ UNCHANGED <<notRetry, r_max, r_attempt, r_hist>>

----------------------------------------------------------------------------
(* classifier.py, fixer.py, executor.py: one inspection *)

L1_ISSUE_TYPES ==
    {"disk_space_low", "temp_files_cleanup", "log_rotation_needed",
     "cache_cleanup", "old_package_cleanup"}

L2_ISSUE_TYPES ==
    {"service_down", "service_failed", "process_crashed", "config_drift",
     "certificate_expiring", "memory_leak"}

Severities == {"low", "medium", "high", "critical"}

Levels == {"L1", "L2", "L3"}

\* an IssueReport; n is the object's identity (its place in issues)
Issue(n, level, type, severity) ==
    [n |-> n, level |-> level, type |-> type, severity |-> severity]

determine_level_l1_first(issue) ==
    IF issue.type \in L1_ISSUE_TYPES THEN "L1"
    ELSE IF issue.severity = "critical" \/ issue.type = "unknown" THEN "L3"
    ELSE "L2"

determine_level(issue) ==
    IF issue.severity = "critical" \/ issue.type = "unknown" THEN "L3"
    ELSE IF issue.type \in L1_ISSUE_TYPES THEN "L1"
    ELSE IF issue.type \in L2_ISSUE_TYPES THEN "L2"
    ELSE "L2"

Relabel(issues) ==
    [k \in 1..Len(issues) |->
        [issues[k] EXCEPT !.level = determine_level(issues[k])]]

Bucket(issues, level) == SelectSeq(issues, LAMBDA i : i.level = level)

\* issue.level is overwritten, then the issue is appended to its bucket
classify(issues) ==
    [L \in Levels |-> Bucket(Relabel(issues), L)]

\* L1AutoFixer.fixers: issue type -> the action its handler reports
fixers ==
    [t \in {"disk_space_low", "temp_files_cleanup", "log_rotation_needed",
            "cache_cleanup"} |->
        CASE t = "disk_space_low" -> "cleaned_disk_space"
          [] t = "temp_files_cleanup" -> "cleaned_temp_files"
          [] t = "log_rotation_needed" -> "log_rotation"
          [] t = "cache_cleanup" -> "cache_cleanup"]

\* how a handler can end: FixResult(success=True), FixResult(success=False),
\* or an exception
HandlerOutcomes == {"success", "failed", "raise"}

NoAction == [level |-> "none", action |-> "", result |-> "", issue |-> 0]

\* an ActionReport; issue is history: the issue it was made for
ActionReport(action, result, issue) ==
    [level |-> "L1", action |-> action, result |-> result, issue |-> issue.n]

\* L1AutoFixer.fix(issue), its handler ending as h: an ActionReport or None
fix(issue, h) ==
    IF issue.type \notin DOMAIN fixers THEN NoAction
    ELSE CASE h = "success" -> ActionReport(fixers[issue.type], "success", issue)
           [] h = "failed" -> ActionReport(fixers[issue.type], "failed", issue)
           [] h = "raise" -> ActionReport(issue.type, "failed", issue)

threshold_cpu_percent == 80

threshold_memory_percent == 85

threshold_disk_percent == 90

\* collect_metrics(): what the host can report (at and above each threshold)
MetricSamples ==
    [cpu_percent : {80, 95}, memory_percent : {85, 95}, disk_percent : {90, 92}]

\* the issues the threshold rules emit, in order
analyze_metrics(metrics) ==
    LET cpu == IF metrics.cpu_percent > threshold_cpu_percent
               THEN <<Issue(0, "L2", "cpu_high", "medium")>> ELSE <<>>
        mem == IF metrics.memory_percent > threshold_memory_percent
               THEN <<Issue(0, "L2", "memory_high", "high")>> ELSE <<>>
        disk == IF metrics.disk_percent > threshold_disk_percent
                THEN <<Issue(0, "L1", "disk_space_low", "high")>> ELSE <<>>
    IN cpu \o mem \o disk

determine_status_no_l2(metrics, classified) ==
    IF classified["L3"] # <<>> THEN "critical"
    ELSE IF \/ metrics.cpu_percent > threshold_cpu_percent
            \/ metrics.memory_percent > threshold_memory_percent
            \/ metrics.disk_percent > threshold_disk_percent
         THEN "warning"
    ELSE "healthy"

determine_status(metrics, classified) ==
    IF classified["L3"] # <<>> THEN "critical"
    ELSE IF \/ classified["L2"] # <<>>
            \/ metrics.cpu_percent > threshold_cpu_percent
            \/ metrics.memory_percent > threshold_memory_percent
            \/ metrics.disk_percent > threshold_disk_percent
         THEN "warning"
    ELSE "healthy"

\* issue types of the findings handed to the pipeline besides the threshold
\* rules' own (executor.py:204-206: issues.extend(...) of further analysers)
FindingTypes ==
    {"cache_cleanup", "old_package_cleanup", "service_down", "unknown",
     "custom_check"}

Findings ==
    {Issue(0, l, t, v) : l \in Levels, t \in FindingTypes, v \in Severities}

FindingLists ==
    UNION {[1..k -> Findings] : k \in 0..MaxFindings}

Numbered(issues) == [k \in 1..Len(issues) |-> [issues[k] EXCEPT !.n = k]]

NoBuckets == [L \in Levels |-> <<>>]

ProbeInit ==
    /\ p_pc = "start"
    /\ p_metrics \in MetricSamples
    /\ p_issues = <<>>
    /\ p_classified = NoBuckets
    /\ p_todo = <<>>
    /\ p_fixed = <<>>
    /\ p_report = NoReport
    /\ p_upload = "none"

\* no inspection is modelled
ProbeIdle ==
    /\ p_pc = "idle"
    /\ p_metrics = [cpu_percent |-> 0, memory_percent |-> 0, disk_percent |-> 0]
    /\ p_issues = <<>>
    /\ p_classified = NoBuckets
    /\ p_todo = <<>>
    /\ p_fixed = <<>>
    /\ p_report = NoReport
    /\ p_upload = "none"

\* execute, steps 1-2: the metrics are analysed into issues
Analyze ==
    \E more \in FindingLists :
        /\ p_pc = "start"
        /\ p_issues' = Numbered(analyze_metrics(p_metrics) \o more)
        /\ p_pc' = "analyzed"
        /\ UNCHANGED <<notProbe, p_metrics, p_classified, p_todo, p_fixed,
                       p_report, p_upload>>

\* execute, step 3
Classify ==
    /\ p_pc = "analyzed"
    /\ p_classified' = classify(p_issues)
    /\ p_todo' = classify(p_issues)["L1"]
    /\ p_pc' = "fixing"
    /\ UNCHANGED <<notProbe, p_metrics, p_issues, p_fixed, p_report, p_upload>>

\* execute, step 4: one pass of the loop over classified_issues["L1"]
FixNext ==
    \E h \in HandlerOutcomes :
        LET action_report == fix(Head(p_todo), h)
        IN /\ p_pc = "fixing"
           /\ p_todo # <<>>
           /\ p_fixed' = IF action_report # NoAction
                         THEN Append(p_fixed, action_report) ELSE p_fixed
           /\ p_todo' = Tail(p_todo)
           /\ UNCHANGED <<notProbe, p_pc, p_metrics, p_issues, p_classified,
                          p_report, p_upload>>

\* execute, steps 5-6: the status and the ProbeReport
BuildReport ==
    /\ p_pc = "fixing"
    /\ p_todo = <<>>
    /\ p_report' = [status |-> determine_status(p_metrics, p_classified),
                    issues |-> p_classified["L2"] \o p_classified["L3"],
                    actions_taken |-> p_fixed]
    /\ p_pc' = "reported"
    /\ UNCHANGED <<notProbe, p_metrics, p_issues, p_classified, p_todo,
                   p_fixed, p_upload>>

\* send_report(report): one POST; an httpx.HTTPError is logged and nothing
\* else is done with the report (any other exception is logged by
\* run_inspection)
SendReport ==
    \E o \in SendOutcomes :
        /\ p_pc = "reported"
        /\ p_upload' = IF o = Ok THEN "sent" ELSE "failed"
        /\ p_pc' = "done"
        /\ UNCHANGED <<notProbe, p_metrics, p_issues, p_classified, p_todo,
                       p_fixed, p_report>>

----------------------------------------------------------------------------
(* scheduler_service.py, claude_executor.py: the inspection scheduler *)

ExecutionIds == 1..MaxExecutions

\* ExecutionStatus
ExecutionStatuses == {"pending", "running", "completed", "failed", "timeout"}

\* how the claude -p subprocess of one run can end
RunOutcomes == {"exit_zero", "exit_nonzero", "timeout", "exception"}

\* the status ClaudeExecutor.execute leaves in its result
final_status(outcome) ==
    CASE outcome = "exit_zero" -> "completed"
      [] outcome = "exit_nonzero" -> "failed"
      [] outcome = "timeout" -> "timeout"
      [] outcome = "exception" -> "failed"

ExecutionResult(execution_id, status) ==
    [execution_id |-> execution_id, status |-> status]

is_running == current_execution # 0

\* _add_to_history(result)
add_to_history(history, result) ==
    LET longer == Append(history, result)
    IN IF Len(longer) > max_history
       THEN SubSeq(longer, Len(longer) - max_history + 1, Len(longer))
       ELSE longer

\* running is scheduler.running, job whether the cron job is there,
\* job_paused whether that job is paused, paused the service's _paused;
\* last is history: the latest of pause, resume, cron and manual
NoSchedule ==
    [running |-> FALSE, stopped |-> FALSE, job |-> FALSE, job_paused |-> FALSE,
     paused |-> FALSE, last |-> "none"]

SchedInit ==
    /\ schedule = NoSchedule
    /\ s_issued = 0
    /\ s_phase = [i \in ExecutionIds |-> "none"]
    /\ s_force = [i \in ExecutionIds |-> FALSE]
    /\ s_last = "none"
    /\ current_execution = 0
    /\ ex_trace = [i \in ExecutionIds |-> <<>>]
    /\ execution_history = <<>>

\* execute_once(force), up to its await of broadcast_inspection_started: the
\* running check, then a fresh execution id
execute_once(force) ==
    /\ s_issued < MaxExecutions
    /\ IF is_running /\ ~force
       THEN /\ s_last' = "already_running"
            /\ UNCHANGED <<s_issued, s_phase, s_force>>
       ELSE /\ s_issued' = s_issued + 1
            /\ s_phase' = [s_phase EXCEPT ![s_issued + 1] = "broadcast"]
            /\ s_force' = [s_force EXCEPT ![s_issued + 1] = force]
            /\ s_last' = "started"
    /\ UNCHANGED <<notSched, current_execution, ex_trace, execution_history>>

\* the scheduler runs a job that is there and not paused
CronDue == schedule.running /\ schedule.job /\ ~schedule.job_paused

\* the cron job: _scheduled_inspection
ScheduledInspection ==
    /\ CronDue
    /\ execute_once(FALSE)
    /\ schedule' = [schedule EXCEPT !.last = "cron"]

\* POST /execute: execute_once(force=request.force)
ManualExecute ==
    /\ \E force \in BOOLEAN : execute_once(force)
    /\ schedule' = [schedule EXCEPT !.last = "manual"]

SchedUnchanged ==
    UNCHANGED <<notSched, s_issued, s_phase, s_force, s_last, current_execution,
                ex_trace, execution_history>>

\* start(): the cron job is added when a schedule is configured, the
\* scheduler started
SchedStart ==
    /\ ~schedule.running
    /\ ~schedule.stopped
    /\ \E schedule_cron \in BOOLEAN :
          schedule' = [schedule EXCEPT !.running = TRUE, !.last = "start",
                                       !.job = schedule.job \/ schedule_cron]
    /\ SchedUnchanged

\* stop(): scheduler.shutdown
SchedStop ==
    /\ schedule.running
    /\ schedule' = [schedule EXCEPT !.running = FALSE, !.stopped = TRUE,
                                 !.last = "stop"]
    /\ SchedUnchanged

\* pause_schedule
pause_schedule_flag_only ==
    /\ schedule' = IF schedule.running /\ schedule.job
                   THEN [schedule EXCEPT !.paused = TRUE, !.last = "pause"]
                   ELSE [schedule EXCEPT !.last = "pause"]
    /\ SchedUnchanged

pause_schedule ==
    /\ schedule' = IF schedule.running /\ schedule.job
                   THEN [schedule EXCEPT !.job_paused = TRUE, !.paused = TRUE,
                                         !.last = "pause"]
                   ELSE [schedule EXCEPT !.last = "pause"]
    /\ SchedUnchanged

\* resume_schedule
resume_schedule ==
    /\ schedule' = IF schedule.running /\ schedule.job
                   THEN [schedule EXCEPT !.job_paused = FALSE, !.paused = FALSE,
                                         !.last = "resume"]
                   ELSE [schedule EXCEPT !.last = "resume"]
    /\ SchedUnchanged

\* execute_once after the broadcast: create_task(_execute_and_record(id))
CreateTask ==
    \E id \in ExecutionIds :
        /\ s_phase[id] = "broadcast"
        /\ s_phase' = [s_phase EXCEPT ![id] = "task"]
        /\ UNCHANGED <<notSched, schedule, s_issued, s_force, s_last, current_execution,
                       ex_trace, execution_history>>

\* the task starts: ClaudeExecutor.execute up to its first await
ExecuteBegin ==
    \E id \in ExecutionIds :
        /\ s_phase[id] = "task"
        /\ s_phase' = [s_phase EXCEPT ![id] = "running"]
        /\ ex_trace' = [ex_trace EXCEPT ![id] = Append(@, "running")]
        /\ current_execution' = id
        /\ UNCHANGED <<notSched, schedule, s_issued, s_force, s_last, execution_history>>

\* the subprocess ends: the rest of ClaudeExecutor.execute, then
\* _execute_and_record's _add_to_history
ExecuteEnd ==
    \E id \in ExecutionIds : \E outcome \in RunOutcomes :
        /\ s_phase[id] = "running"
        /\ s_phase' = [s_phase EXCEPT ![id] = "done"]
        /\ ex_trace' = [ex_trace EXCEPT ![id] = Append(@, final_status(outcome))]
        /\ current_execution' = 0
        /\ execution_history' =
              add_to_history(execution_history,
                             ExecutionResult(id, final_status(outcome)))
        /\ UNCHANGED <<notSched, schedule, s_issued, s_force, s_last>>

----------------------------------------------------------------------------
(***************************************************************************)
(* common: the TTL cache                                                   *)
(***************************************************************************)

\* a key is the text key_prefix:func_name:hash, kept as its colon-separated
\* parts; a pattern is a text without its trailing colon, kept the same way
agent_token(agent_id) == <<"agent-1", "agent-2", "agent-3", "agent-4">>[agent_id]

\* pattern in k
Matches(pattern, k) ==
    \E i \in 0..(Len(k) - Len(pattern)) : SubSeq(k, i + 1, i + Len(pattern)) = pattern

Restrict(f, S) == [k \in S |-> f[k]]

\* a cached value is a response: the view it answers and its data
Response(name, data) == [view |-> name, data |-> data]
NoValue == Response("None", <<>>)

\* TTLCache.get: the value returned and the map it leaves
cache_get_keeping_expired(c, k, t) ==
    IF k \notin DOMAIN c THEN [value |-> NoValue, cache |-> c]
    ELSE IF t >= c[k].expires_at THEN [value |-> NoValue, cache |-> c]
    ELSE [value |-> c[k].value, cache |-> c]

cache_get(c, k, t) ==
    IF k \notin DOMAIN c THEN [value |-> NoValue, cache |-> c]
    ELSE IF t >= c[k].expires_at
    THEN [value |-> NoValue, cache |-> Restrict(c, DOMAIN c \ {k})]
    ELSE [value |-> c[k].value, cache |-> c]

cache_set(c, k, value, ttl, t) ==
    [x \in DOMAIN c \cup {k} |->
        IF x = k THEN [value |-> value, expires_at |-> t + ttl] ELSE c[x]]

cache_delete(c, k) == Restrict(c, DOMAIN c \ {k})

cache_clear(c) == Restrict(c, {})

clear_pattern(c, pattern) == Restrict(c, {k \in DOMAIN c : ~Matches(pattern, k)})

(* monitor: the agents table, the heartbeat endpoints, the heartbeat checker *)

AgentIds == 1..MaxAgents

\* a NULL last_heartbeat; the clock starts at 1
Null == 0

NoAgents == [a \in {} |-> Null]

\* register_agent, step 4: a new Agent row
NewAgent(parent_id, upstream_monitor_url) ==
    [status |-> "offline", health_status |-> "unknown", last_heartbeat |-> Null,
     parent_id |-> parent_id, upstream_monitor_url |-> upstream_monitor_url]

\* the two heartbeat endpoints: POST /heartbeat (reports.py) takes no body,
\* POST /agents/{id}/heartbeat (cluster.py) an optional health_status
HeartbeatEndpoints == {"reports", "cluster"}

HeartbeatHealth(endpoint) ==
    IF endpoint = "cluster" THEN {"none", "warning"} ELSE {"none"}

heartbeat_update_status_kept(agent, health, t) ==
    [agent EXCEPT !.last_heartbeat = t,
                  !.health_status = IF health # "none" THEN health ELSE @]

\* what a heartbeat writes to the agent's row
heartbeat_update(agent, health, t) ==
    [agent EXCEPT !.last_heartbeat = t,
                  !.status = "online",
                  !.health_status = IF health # "none" THEN health ELSE @]

NoHeartbeat ==
    [pc |-> "idle", agent_id |-> 0, endpoint |-> "reports", health |-> "none",
     t_before |-> 0, was |-> "none"]

\* dirty is history: the agents table was written since the sweep's SELECT
NoSweep ==
    [pc |-> "idle", n |-> 0, threshold |-> 0, offline_agents |-> {},
     dirty |-> FALSE]

Written == [sw EXCEPT !.dirty = (sw.pc = "commit")]

HeartbeatInit ==
    /\ agents = NoAgents
    /\ m_now = 1
    /\ hb = NoHeartbeat
    /\ sw = NoSweep
    /\ announced = [a \in AgentIds |-> 0]
    /\ swept_stale = [a \in AgentIds |-> FALSE]

MonitorTick ==
    /\ m_now < MaxTime
    /\ m_now' = m_now + 1
    /\ UNCHANGED <<notHeartbeat, agents, hb, sw, announced, swept_stale>>

\* the invalidations after a registration or a deletion
invalidate_agents_and_cluster(c) == clear_pattern(clear_pattern(c, <<"agents">>), <<"cluster">>)

\* the invalidations after a heartbeat on POST /agents/{id}/heartbeat
invalidate_after_heartbeat(c, agent_id) ==
    clear_pattern(
        clear_pattern(
            clear_pattern(c, <<"agents", "detail", agent_token(agent_id)>>),
            <<"agents", "list">>),
        <<"cluster", "overview">>)

\* POST /agents: a parent_id that is given must be stored; a new agent is
\* created offline, a known one has its registration data replaced; the
\* agent and cluster views are invalidated
register_agent(agent_id, parent_id, upstream_monitor_url) ==
    /\ parent_id # Null => parent_id \in DOMAIN agents
    /\ agents' =
          IF agent_id \in DOMAIN agents
          THEN [agents EXCEPT ![agent_id].parent_id = parent_id,
                              ![agent_id].upstream_monitor_url = upstream_monitor_url]
          ELSE [a \in DOMAIN agents \cup {agent_id} |->
                   IF a = agent_id THEN NewAgent(parent_id, upstream_monitor_url)
                   ELSE agents[a]]
    /\ cache' = invalidate_agents_and_cluster(cache)
    /\ agents' # agents \/ cache' # cache
    /\ sw' = Written
    /\ UNCHANGED <<notAgents, m_now, hb, announced, swept_stale>>

RegisterStandalone == \E a \in AgentIds : register_agent(a, Null, "")

\* a heartbeat request arrives and its handler issues the SELECT
HeartbeatBegin ==
    \E a \in AgentIds : \E endpoint \in HeartbeatEndpoints :
      \E health \in HeartbeatHealth(endpoint) :
        /\ hb.pc # "selecting"
        /\ hb' = [pc |-> "selecting", agent_id |-> a, endpoint |-> endpoint,
                  health |-> health, t_before |-> m_now,
                  was |-> IF a \in DOMAIN agents THEN agents[a].status
                          ELSE "none"]
        /\ UNCHANGED <<notHeartbeat, agents, m_now, sw, announced, swept_stale>>

\* the rest of receive_heartbeat / agent_heartbeat: 404 for an unknown
\* agent, else the update and its commit
HeartbeatFinish ==
    /\ hb.pc = "selecting"
    /\ IF hb.agent_id \notin DOMAIN agents
       THEN /\ hb' = [hb EXCEPT !.pc = "not_found"]
            /\ UNCHANGED <<agents, sw, announced, swept_stale, cache>>
       ELSE /\ agents' = [agents EXCEPT ![hb.agent_id] =
                              heartbeat_update(@, hb.health, m_now)]
            /\ hb' = [hb EXCEPT !.pc = "ok", !.was = agents[hb.agent_id].status]
            /\ announced' = [announced EXCEPT ![hb.agent_id] = 0]
            /\ swept_stale' = [swept_stale EXCEPT ![hb.agent_id] = FALSE]
            /\ sw' = Written
            /\ cache' = IF hb.endpoint = "cluster"
                        THEN invalidate_after_heartbeat(cache, hb.agent_id)
                        ELSE cache
    /\ UNCHANGED <<notAgents, m_now>>

\* agent.last_heartbeat is None or agent.last_heartbeat < timeout_threshold,
\* for a value loaded with or without tzinfo against the timezone-aware
\* threshold: "stale", "fresh", or "TypeError" (naive against aware)
is_stale(agent, timeout_threshold, loaded_aware) ==
    IF agent.last_heartbeat = Null THEN "stale"
    ELSE IF ~loaded_aware THEN "TypeError"
    ELSE IF agent.last_heartbeat < timeout_threshold THEN "stale"
    ELSE "fresh"

Stale(a, timeout_threshold) ==
    /\ a \in DOMAIN agents
    /\ agents[a].last_heartbeat # Null
    /\ agents[a].last_heartbeat < timeout_threshold

\* a sweep has ended: the history of the agents it read as timed out
SweepEnded(timeout_threshold) ==
    swept_stale' = [a \in AgentIds |->
                       swept_stale[a] \/ Stale(a, timeout_threshold)]

\* _check_heartbeats up to its commit: the threshold, the SELECT of the
\* online agents, the loop over them.  The column is a DateTime without
\* timezone; whether a loaded value carries tzinfo is the database driver's
\* doing (SQLite's, the default database, does not).
SweepRead ==
    \E loaded_aware \in BOOLEAN :
        LET timeout_threshold == m_now - timeout_minutes
            online_agents == {a \in DOMAIN agents : agents[a].status = "online"}
            raised == \E a \in online_agents :
                          is_stale(agents[a], timeout_threshold, loaded_aware)
                              = "TypeError"
            offline_agents ==
                {a \in online_agents :
                    is_stale(agents[a], timeout_threshold, loaded_aware) = "stale"}
        IN /\ sw.pc = "idle"
           /\ sw.n < MaxSweeps
           /\ IF raised \/ offline_agents = {}
              THEN /\ sw' = [sw EXCEPT !.n = @ + 1,
                                       !.threshold = timeout_threshold,
                                       !.offline_agents = {},
                                       !.dirty = FALSE]
                   /\ SweepEnded(timeout_threshold)
              ELSE /\ sw' = [sw EXCEPT !.pc = "commit",
                                       !.threshold = timeout_threshold,
                                       !.offline_agents = offline_agents,
                                       !.dirty = FALSE]
                   /\ UNCHANGED swept_stale
           /\ UNCHANGED <<notHeartbeat, agents, m_now, hb, announced>>

\* session.commit() of the sweep, then one broadcast_agent_status_changed
\* per agent marked offline
SweepCommit ==
    /\ sw.pc = "commit"
    /\ agents' = [a \in DOMAIN agents |->
                     IF a \in sw.offline_agents
                     THEN [agents[a] EXCEPT !.status = "offline"]
                     ELSE agents[a]]
    /\ announced' = [a \in AgentIds |->
                        IF a \in sw.offline_agents THEN announced[a] + 1
                        ELSE announced[a]]
    /\ sw' = [sw EXCEPT !.pc = "idle", !.n = @ + 1]
    /\ SweepEnded(sw.threshold)
    /\ UNCHANGED <<notHeartbeat, m_now, hb>>

(***************************************************************************)
(* monitor: report ingest, POST /api/v1/reports                            *)
(***************************************************************************)

\* the issues a report carries: what receive_report reads of an IssueReport
Issues ==
    {[level |-> "L2", type |-> "service_down"],
     [level |-> "L3", type |-> "service_down"],
     [level |-> "L3", type |-> "disk_failure"]}
ReportStatuses == {"critical"}
UpstreamUrl == "http://upstream"

RECURSIVE SeqsUpTo(_, _)
SeqsUpTo(S, n) ==
    IF n = 0 THEN {<<>>}
    ELSE LET shorter == SeqsUpTo(S, n - 1)
         IN  shorter \cup {Append(q, x) : q \in {p \in shorter : Len(p) = n - 1}, x \in S}

\* ProbeReport as far as receive_report reads it
ProbeReports ==
    [status : ReportStatuses,
     issues : SeqsUpTo(Issues, MaxIssues)]

\* indices of the issues of one level, in report order
IssuesAt(report, level) ==
    SelectSeq([i \in 1..Len(report.issues) |-> i],
              LAMBDA i : report.issues[i].level = level)

NoIngest ==
    [pc |-> "idle", agent_id |-> 0, report |-> [status |-> "critical", issues |-> <<>>],
     created |-> FALSE, upstream_monitor_url |-> "", now |-> 0, report_id |-> 0,
     todo |-> <<>>, log |-> <<>>, l2_decisions |-> <<>>,
     l3_alerts |-> 0, notified |-> "none", response |-> "none"]

IngestInit ==
    /\ reports = <<>>
    /\ alerts = <<>>
    /\ ing = NoIngest

\* what the report writes to a known agent's row
ingest_update_no_heartbeat(agent, report, t) ==
    [agent EXCEPT !.status = "online", !.health_status = report.status]

ingest_update(agent, report, t) ==
    [agent EXCEPT !.status = "online",
                  !.health_status = report.status,
                  !.last_heartbeat = t]

\* the row of an agent that reports without having been registered
ingest_create(report, t) ==
    [status |-> "online", health_status |-> report.status, last_heartbeat |-> t,
     parent_id |-> Null, upstream_monitor_url |-> ""]

\* the request arrives: SELECT the agent, stage the agent row and the Report
\* row in the session, issue the COMMIT
IngestBegin ==
    /\ ing.pc \in {"idle", "done"}
    /\ Len(reports) < MaxReports
    /\ \E agent_id \in AgentIds, report \in ProbeReports :
          ing' = [NoIngest EXCEPT
                     !.pc = "staged",
                     !.agent_id = agent_id,
                     !.report = report,
                     !.created = (agent_id \notin DOMAIN agents),
                     !.now = m_now,
                     !.upstream_monitor_url =
                         IF agent_id \in DOMAIN agents
                         THEN agents[agent_id].upstream_monitor_url ELSE ""]
    /\ UNCHANGED <<notIngest, heartbeatVars, reports, alerts>>

\* the COMMIT: the staged INSERT of an agent that was registered in the
\* meantime violates the primary key, the handler rolls back and answers 500
IngestCommit ==
    /\ ing.pc = "staged"
    /\ IF ing.created /\ ing.agent_id \in DOMAIN agents
       THEN /\ ing' = [ing EXCEPT !.pc = "done", !.response = "error500"]
            /\ UNCHANGED <<agents, reports, announced, swept_stale, sw>>
       ELSE /\ agents' =
                 [a \in DOMAIN agents \cup {ing.agent_id} |->
                     IF a # ing.agent_id THEN agents[a]
                     ELSE IF ing.created THEN ingest_create(ing.report, ing.now)
                     ELSE ingest_update(agents[a], ing.report, ing.now)]
            /\ reports' = Append(reports, [agent_id |-> ing.agent_id,
                                           status |-> ing.report.status,
                                           issues |-> ing.report.issues])
            /\ announced' = [announced EXCEPT ![ing.agent_id] = 0]
            /\ swept_stale' = [swept_stale EXCEPT ![ing.agent_id] = FALSE]
            /\ sw' = Written
            /\ LET l2_issues == IssuesAt(ing.report, "L2")
               IN  ing' = [ing EXCEPT !.pc = IF l2_issues = <<>> THEN "l3" ELSE "l2",
                                      !.report_id = Len(reports) + 1,
                                      !.todo = l2_issues]
    /\ UNCHANGED <<notIngest, m_now, hb, alerts>>

\* what the upstream monitor's answer holds: a decision, or a body without
\* the data.status and data.reason keys
UpstreamBodies ==
    {[status |-> "approved", reason |-> "upstream reason"],
     [status |-> "rejected", reason |-> "upstream reason"],
     [status |-> "missing", reason |-> "missing"]}

\* outcomes of the POST to the upstream, retried with PATIENT_RETRY_CONFIG
ForwardResults ==
    {retry_async(outs, PatientMaxAttempts) :
        outs \in [1..PatientMaxAttempts -> SendOutcomes]}

None == [status |-> "none", reason |-> "none"]

\* the decision payload, or None on exhaustion, on an error that is not
\* retried and on a body that cannot be read
forward_decision_request(r, body) ==
    IF r.result = "return" /\ body.status # "missing" THEN body ELSE None

\* DecisionEngine: what the LLM answers, or that the call fails
LlmOutputs == {"DECISION: APPROVE", "DECISION: REJECT", "no keywords", "llm raises"}

_parse_llm_response(llm_output) ==
    [status |-> IF llm_output = "DECISION: APPROVE" THEN "approved" ELSE "rejected",
     reason |-> IF llm_output = "no keywords" THEN "unparsed" ELSE "llm reason"]

\* the Decision of the local engine; recorder and database errors raise
analyze_and_decide(llm_output, raises) ==
    IF raises THEN [raised |-> TRUE, status |-> "none", reason |-> "none"]
    ELSE IF llm_output = "llm raises"
    THEN [raised |-> FALSE, status |-> "rejected", reason |-> "llm failed"]
    ELSE [raised |-> FALSE] @@ _parse_llm_response(llm_output)

\* the path one L2 issue takes: the Decision appended to l2_decisions, if
\* any, and whether an exception leaves the loop
l2_decision_no_fallback(issue, upstream_monitor_url, decision_data, local) ==
    IF upstream_monitor_url # "" /\ decision_data # None
    THEN [listed |-> TRUE, raised |-> FALSE, source |-> "upstream",
          status |-> decision_data.status, reason |-> decision_data.reason]
    ELSE IF upstream_monitor_url # "" \/ local.raised
    THEN [listed |-> FALSE, raised |-> FALSE, source |-> "none",
          status |-> "none", reason |-> "none"]
    ELSE [listed |-> TRUE, raised |-> FALSE, source |-> "local",
          status |-> local.status, reason |-> local.reason]

l2_decision(issue, upstream_monitor_url, decision_data, local) ==
    IF upstream_monitor_url # "" /\ decision_data # None
    THEN [listed |-> TRUE, raised |-> FALSE, source |-> "upstream",
          status |-> decision_data.status, reason |-> decision_data.reason]
    ELSE IF local.raised
    THEN \* batch_analyze logs and goes on, the fallback call is not guarded
         [listed |-> FALSE, raised |-> (upstream_monitor_url # ""),
          source |-> "none", status |-> "none", reason |-> "none"]
    ELSE [listed |-> TRUE, raised |-> FALSE, source |-> "local",
          status |-> local.status, reason |-> local.reason]

\* what the forwarder can return, what the local engine can do
ForwardedData ==
    {forward_decision_request(r, body) : r \in ForwardResults, body \in UpstreamBodies}
LocalDecisions ==
    {analyze_and_decide(llm_output, raises) :
        llm_output \in LlmOutputs, raises \in BOOLEAN}

\* one L2 issue is decided
IngestDecide ==
    /\ ing.pc = "l2"
    /\ \E decision_data \in IF ing.upstream_monitor_url # "" THEN ForwardedData
                             ELSE {None},
          local \in LocalDecisions :
          LET issue == Head(ing.todo)
              forwarded == ing.upstream_monitor_url # ""
              called == ~forwarded \/ decision_data = None
              d == l2_decision(issue, ing.upstream_monitor_url, decision_data, local)
              entry == [issue |-> issue,
                        forward |-> IF ~forwarded THEN "none"
                                    ELSE IF decision_data # None THEN "ok"
                                    ELSE "failed",
                        upstream |-> decision_data,
                        local |-> IF called THEN local ELSE analyze_and_decide("llm raises", TRUE),
                        engine |-> IF ~called THEN "none"
                                   ELSE IF local.raised THEN "raised"
                                   ELSE "decided"]
          IN  ing' = [ing EXCEPT
                         !.todo = Tail(@),
                         !.log = Append(@, entry),
                         !.l2_decisions =
                             IF d.listed
                             THEN Append(@, [issue |-> issue, status |-> d.status,
                                             reason |-> d.reason, source |-> d.source])
                             ELSE @,
                         !.pc = IF d.raised THEN "done"
                                ELSE IF Tail(ing.todo) = <<>> THEN "l3" ELSE "l2",
                         !.response = IF d.raised THEN "error500" ELSE @]
    /\ UNCHANGED <<notIngest, heartbeatVars, reports, alerts>>

_check_duplicate_any_agent(table, agent_id, type, t) ==
    \E i \in 1..Len(table) :
        /\ table[i].type = type
        /\ table[i].status \in {"new", "acknowledged"}
        /\ table[i].created_at >= t - DEDUP_WINDOW_MINUTES

\* an unresolved alert of the agent with this type inside the window
_check_duplicate(table, agent_id, type, t) ==
    \E i \in 1..Len(table) :
        /\ table[i].agent_id = agent_id
        /\ table[i].type = type
        /\ table[i].status \in {"new", "acknowledged"}
        /\ table[i].created_at >= t - DEDUP_WINDOW_MINUTES

_create_alert(agent_id, type, t) ==
    [agent_id |-> agent_id, type |-> type, status |-> "new", created_at |-> t,
     acknowledged_by |-> "none", resolved_at |-> Null]

RECURSIVE process_issues_no_dedup(_, _, _, _)
process_issues_no_dedup(table, issues, agent_id, t) ==
    IF issues = <<>> THEN table
    ELSE process_issues_no_dedup(
             Append(table, _create_alert(agent_id, Head(issues).type, t)),
             Tail(issues), agent_id, t)

\* the alerts table after process_issues has gone through the L3 issues
RECURSIVE process_issues(_, _, _, _)
process_issues(table, issues, agent_id, t) ==
    IF issues = <<>> THEN table
    ELSE process_issues(
             IF _check_duplicate(table, agent_id, Head(issues).type, t) THEN table
             ELSE Append(table, _create_alert(agent_id, Head(issues).type, t)),
             Tail(issues), agent_id, t)

NotifierOutcomes == {"sent", "disabled", "send failed"}

\* the L3 issues become alerts, the notifier is called, the response is built
IngestAlerts ==
    /\ ing.pc = "l3"
    /\ LET l3 == IssuesAt(ing.report, "L3")
           l3_issues == [i \in 1..Len(l3) |-> ing.report.issues[l3[i]]]
       IN  IF l3_issues = <<>>
           THEN /\ ing' = [ing EXCEPT !.pc = "done", !.response = "success"]
                /\ cache' = clear_pattern(cache, <<"cluster", "overview">>)
                /\ UNCHANGED alerts
           ELSE \E raises \in BOOLEAN, outcome \in NotifierOutcomes :
                   IF raises
                   THEN /\ ing' = [ing EXCEPT !.pc = "done", !.response = "error500"]
                        /\ UNCHANGED <<alerts, cache>>
                   ELSE /\ alerts' = process_issues(alerts, l3_issues, ing.agent_id, m_now)
                        /\ cache' = clear_pattern(cache, <<"cluster", "overview">>)
                        /\ ing' = [ing EXCEPT
                                      !.pc = "done",
                                      !.l3_alerts = Len(alerts') - Len(alerts),
                                      !.notified = IF Len(alerts') > Len(alerts)
                                                   THEN outcome ELSE "none",
                                      !.response = "success"]
    /\ UNCHANGED <<notMonitor, alertVars, view, c_last, heartbeatVars, reports>>

RegisterAgent == \E a \in AgentIds, url \in {"", UpstreamUrl} : register_agent(a, Null, url)

(***************************************************************************)
(* monitor: alert aggregation step by step, alert status requests          *)
(***************************************************************************)

Workers == {1, 2}
\* the issue type the workers report
L3Types == {"service_down"}
StatusRequests == {"acknowledge", "resolve"}

NoAgg == [pc |-> "idle", agent_id |-> 0, issues |-> <<>>]
NoStatusRequest == [pc |-> "idle", alert_id |-> 0]

AlertInit ==
    /\ agg = [w \in Workers |-> NoAgg]
    /\ areq = [h \in StatusRequests |-> NoStatusRequest]
    /\ agg_hist = [started |-> 0, overlapped |-> FALSE, requests |-> 0,
                   response |-> "none"]

InProgress(w) == agg[w].pc \in {"check", "create"}

\* receive_report reaches process_issues with the L3 issues of a report; the
\* request is handled by the first worker that is free
AggBegin(w) ==
    /\ agg[w].pc = "idle"
    /\ \A v \in Workers : v < w => InProgress(v)
    /\ agg_hist.started < MaxReports
    /\ \E agent_id \in AgentIds, issues \in SeqsUpTo(L3Types, MaxIssues) \ {<<>>} :
          agg' = [agg EXCEPT ![w] = [NoAgg EXCEPT !.pc = "check",
                                                  !.agent_id = agent_id,
                                                  !.issues = issues]]
    /\ agg_hist' = [agg_hist EXCEPT
                       !.started = @ + 1,
                       !.overlapped = @ \/ \E v \in Workers \ {w} : InProgress(v)]
    /\ UNCHANGED <<notMonitor, cacheVars, heartbeatVars, ingestVars, areq>>

\* _check_duplicate's SELECT for the next issue
AggCheck(w) ==
    /\ agg[w].pc = "check"
    /\ agg' = [agg EXCEPT ![w] =
                  IF ~_check_duplicate(alerts, @.agent_id, Head(@.issues), m_now)
                  THEN [@ EXCEPT !.pc = "create"]
                  ELSE IF Tail(@.issues) = <<>> THEN NoAgg
                  ELSE [@ EXCEPT !.issues = Tail(@)]]
    /\ UNCHANGED <<notMonitor, cacheVars, heartbeatVars, ingestVars, areq, agg_hist>>

\* a variant that repeats the duplicate check inside the INSERT's transaction
AggCreate_rechecking(w) ==
    /\ agg[w].pc = "create"
    /\ alerts' = IF _check_duplicate(alerts, agg[w].agent_id, Head(agg[w].issues), m_now)
                 THEN alerts
                 ELSE Append(alerts, _create_alert(agg[w].agent_id, Head(agg[w].issues), m_now))
    /\ agg' = [agg EXCEPT ![w] =
                  IF Tail(@.issues) = <<>> THEN NoAgg
                  ELSE [@ EXCEPT !.issues = Tail(@), !.pc = "check"]]
    /\ UNCHANGED <<notMonitor, cacheVars, heartbeatVars, reports, ing, areq, agg_hist>>

\* _create_alert's INSERT and COMMIT
AggCreate(w) ==
    /\ agg[w].pc = "create"
    /\ alerts' = Append(alerts, _create_alert(agg[w].agent_id, Head(agg[w].issues), m_now))
    /\ agg' = [agg EXCEPT ![w] =
                  IF Tail(@.issues) = <<>> THEN NoAgg
                  ELSE [@ EXCEPT !.issues = Tail(@), !.pc = "check"]]
    /\ UNCHANGED <<notMonitor, cacheVars, heartbeatVars, reports, ing, areq, agg_hist>>

\* the status check of the two handlers
Allowed(h, status) ==
    IF h = "acknowledge" THEN status = "new" ELSE status # "resolved"

\* what the handler's UPDATE writes
StatusUpdate(h, alert, t) ==
    IF h = "acknowledge"
    THEN [alert EXCEPT !.status = "acknowledged", !.acknowledged_by = "operator"]
    ELSE [alert EXCEPT !.status = "resolved", !.resolved_at = t]

\* what Depends(lambda: get_db_manager().get_session()) hands the handler:
\* the lambda is a plain function that returns the async generator itself,
\* so whether a session is injected is up to the framework and its overrides
Injected == {"session", "async_generator"}

\* the request arrives: without a session every call on it raises and the
\* answer is 500; else SELECT the alert, 404 or 400, else change the loaded
\* object and issue the COMMIT
StatusSelect(h) ==
    /\ areq[h].pc = "idle"
    /\ alerts # <<>>
    /\ agg_hist.requests < MaxStatusRequests
    /\ \E alert_id \in 1..(Len(alerts) + 1), injected \in Injected :
          LET response == IF injected # "session" THEN "500"
                          ELSE IF alert_id > Len(alerts) THEN "404"
                          ELSE IF ~Allowed(h, alerts[alert_id].status) THEN "400"
                          ELSE "none"
          IN  /\ areq' = [areq EXCEPT ![h] =
                             IF response = "none"
                             THEN [pc |-> "loaded", alert_id |-> alert_id]
                             ELSE NoStatusRequest]
              /\ agg_hist' = [agg_hist EXCEPT !.requests = @ + 1,
                                              !.response = response]
    /\ UNCHANGED <<notMonitor, cacheVars, heartbeatVars, ingestVars, agg>>

\* the COMMIT: the UPDATE goes to the row whatever its status is by now
StatusCommit(h) ==
    /\ areq[h].pc = "loaded"
    /\ alerts' = [alerts EXCEPT ![areq[h].alert_id] = StatusUpdate(h, @, m_now)]
    /\ areq' = [areq EXCEPT ![h] = NoStatusRequest]
    /\ agg_hist' = [agg_hist EXCEPT !.response = "success"]
    /\ UNCHANGED <<notMonitor, cacheVars, heartbeatVars, reports, ing, agg>>

AlertTick ==
    /\ m_now < MaxTime
    /\ m_now' = m_now + 1
    /\ UNCHANGED <<notMonitor, agents, hb, sw, announced, swept_stale,
                   ingestVars, alertVars, cacheVars>>

(***************************************************************************)
(* common: the TTL cache exercised on its own                              *)
(***************************************************************************)

NoView == [n |-> 0, key |-> <<>>, value |-> NoValue, hit |-> FALSE]

CacheInit ==
    /\ cache = <<>>
    /\ view = NoView
    /\ c_last = <<>>

\* the keys, values and patterns the cache is exercised with
TestKeys ==
    {<<"agents", "list", "list_agents", "h0">>,
     <<"agents", "detail", "get_agent", "h1">>}
TestValues == {Response("test", <<1>>), Response("test", <<2>>)}
TestPatterns == {<<"agents">>, <<"agents", "list">>, <<"agents", "detail", agent_token(1)>>}

\* the history of key k after a write that removes it
Dead(last, keys) ==
    [k \in DOMAIN last |-> IF k \in keys THEN [last[k] EXCEPT !.live = FALSE] ELSE last[k]]

CacheSet ==
    \E k \in TestKeys, value \in TestValues, ttl \in 1..MaxTtl :
        /\ cache' = cache_set(cache, k, value, ttl, m_now)
        /\ c_last' = [x \in DOMAIN c_last \cup {k} |->
                         IF x = k THEN [value |-> value, expires_at |-> m_now + ttl,
                                        live |-> TRUE]
                         ELSE c_last[x]]
        /\ UNCHANGED <<notMonitor, heartbeatVars, ingestVars, alertVars, view>>

CacheGet ==
    /\ view.n < MaxReads
    /\ \E k \in TestKeys :
          LET got == cache_get(cache, k, m_now)
          IN  /\ cache' = got.cache
              /\ view' = [n |-> view.n + 1, key |-> k, value |-> got.value,
                          hit |-> got.value # NoValue]
    /\ UNCHANGED <<notMonitor, heartbeatVars, ingestVars, alertVars, c_last>>

CacheDelete ==
    \E k \in TestKeys :
        /\ cache' = cache_delete(cache, k)
        /\ c_last' = Dead(c_last, {k})
        /\ UNCHANGED <<notMonitor, heartbeatVars, ingestVars, alertVars, view>>

CacheClear ==
    /\ cache' = cache_clear(cache)
    /\ c_last' = Dead(c_last, DOMAIN c_last)
    /\ UNCHANGED <<notMonitor, heartbeatVars, ingestVars, alertVars, view>>

CacheClearPattern ==
    \E pattern \in TestPatterns :
        /\ cache' = clear_pattern(cache, pattern)
        /\ c_last' = Dead(c_last, {k \in DOMAIN c_last : Matches(pattern, k)})
        /\ UNCHANGED <<notMonitor, heartbeatVars, ingestVars, alertVars, view>>

CacheTick ==
    /\ m_now < MaxTime
    /\ m_now' = m_now + 1
    /\ UNCHANGED <<notMonitor, agents, hb, sw, announced, swept_stale,
                   ingestVars, serviceVars>>

(***************************************************************************)
(* monitor: the cluster router: registration with a parent, deletion, and  *)
(* the four cached views                                                   *)
(***************************************************************************)

\* str(session) carries the address of the request's session object, which
\* the allocator may or may not hand out again
SessionAddresses == 1..MaxSessions

\* generate_cache_key: the sha256 of the arguments, one text per argument
\* list; agent_id 0 stands for a view without a path parameter
generate_cache_key(agent_id, session) ==
    <<<<"h00", "h01", "h02", "h03">>,
      <<"h10", "h11", "h12", "h13">>,
      <<"h20", "h21", "h22", "h23">>,
      <<"h30", "h31", "h32", "h33">>,
      <<"h40", "h41", "h42", "h43">>>>[agent_id + 1][session + 1]

\* the ttl of the 30 s views and of the 60 s topology view, in clock steps
ttl_views == 1
ttl_topology == 2

\* DELETE /agents/{id}: the row goes, rows naming it as parent stay as they
\* are; the agent and cluster views are invalidated
delete_agent(agent_id) ==
    /\ agent_id \in DOMAIN agents
    /\ agents' = Restrict(agents, DOMAIN agents \ {agent_id})
    /\ cache' = invalidate_agents_and_cluster(cache)
    /\ sw' = Written
    /\ UNCHANGED <<notAgents, m_now, hb, announced, swept_stale>>

DeleteAgent == \E a \in AgentIds : delete_agent(a)

ClusterRegister ==
    \E a \in AgentIds, parent_id \in AgentIds \cup {Null} : register_agent(a, parent_id, "")

\* cluster_topology.calculate_level
RECURSIVE calculate_level_flat(_, _, _)
calculate_level_flat(agents_dict, agent_id, visited) ==
    IF agent_id \in visited THEN -1
    ELSE IF agent_id \notin DOMAIN agents_dict THEN -1
    ELSE IF agents_dict[agent_id].parent_id = Null THEN 0
    ELSE LET parent_level == calculate_level_flat(agents_dict, agents_dict[agent_id].parent_id,
                                                  visited \cup {agent_id})
         IN  IF parent_level = -1 THEN -1 ELSE parent_level

RECURSIVE calculate_level(_, _, _)
calculate_level(agents_dict, agent_id, visited) ==
    IF agent_id \in visited THEN -1
    ELSE IF agent_id \notin DOMAIN agents_dict THEN -1
    ELSE IF agents_dict[agent_id].parent_id = Null THEN 0
    ELSE LET parent_level == calculate_level(agents_dict, agents_dict[agent_id].parent_id,
                                             visited \cup {agent_id})
         IN  IF parent_level = -1 THEN -1 ELSE parent_level + 1

\* what each view computes from the store
list_agents(all_agents) ==
    Response("list", [a \in DOMAIN all_agents |-> all_agents[a].status])

get_agent(all_agents, agent_id) ==
    IF agent_id \notin DOMAIN all_agents THEN NoValue
    ELSE Response("detail", [a \in {agent_id} |-> all_agents[a].status])

cluster_overview(all_agents) ==
    Response("overview",
             <<Cardinality(DOMAIN all_agents),
               Cardinality({a \in DOMAIN all_agents : all_agents[a].status = "online"})>>)

cluster_topology(all_agents) ==
    Response("topology",
             [a \in DOMAIN all_agents |-> calculate_level(all_agents, a, {})])

\* with_cache: the wrapper of a view; result is NoValue when the view raises
with_cache(ttl, key_prefix, func_name, agent_id, result) ==
    /\ view.n < MaxReads
    /\ \E session \in SessionAddresses :
          LET cache_key == key_prefix \o <<func_name, generate_cache_key(agent_id, session)>>
              got == cache_get(cache, cache_key, m_now)
          IN  IF got.value # NoValue
              THEN /\ view' = [n |-> view.n + 1, key |-> cache_key,
                               value |-> got.value, hit |-> TRUE]
                   /\ cache' = got.cache
              ELSE /\ view' = [n |-> view.n + 1, key |-> cache_key,
                               value |-> result, hit |-> FALSE]
                   /\ cache' = IF result = NoValue THEN got.cache
                               ELSE cache_set(got.cache, cache_key, result, ttl, m_now)
    /\ UNCHANGED <<notMonitor, heartbeatVars, ingestVars, alertVars, c_last>>

ListAgents ==
    with_cache(ttl_views, <<"agents", "list">>, "list_agents", 0, list_agents(agents))

GetAgent ==
    \E a \in AgentIds :
        with_cache(ttl_views, <<"agents", "detail">>, "get_agent", a, get_agent(agents, a))

ClusterOverview ==
    with_cache(ttl_views, <<"cluster", "overview">>, "cluster_overview", 0,
               cluster_overview(agents))

ClusterTopology ==
    with_cache(ttl_topology, <<"cluster", "topology">>, "cluster_topology", 0,
               cluster_topology(agents))

(***************************************************************************)
(* monitor: the websocket manager                                          *)
(***************************************************************************)

Connections == 1..MaxConnections
Broadcasts == 1..MaxBroadcasts

\* i is the list iterator's index, connection the one a send is pending on,
\* raises whether that send ends in an exception; at_start is history: the
\* connections in the list when the call started
NoBroadcast ==
    [pc |-> "idle", i |-> 0, connection |-> 0, raises |-> FALSE,
     disconnected |-> <<>>, at_start |-> {}]

WsInit ==
    /\ active_connections = <<>>
    /\ ws_open = [c \in Connections |-> "new"]
    /\ bc = [b \in Broadcasts |-> NoBroadcast]
    /\ received = [c \in Connections |-> <<>>]

Range(seq) == {seq[i] : i \in 1..Len(seq)}

Remove(seq, x) == SelectSeq(seq, LAMBDA y : y # x)

\* WebSocketManager.disconnect
disconnect(connections, websocket) ==
    IF websocket \in Range(connections) THEN Remove(connections, websocket)
    ELSE connections

RECURSIVE disconnect_all(_, _)
disconnect_all(connections, disconnected) ==
    IF disconnected = <<>> THEN connections
    ELSE disconnect_all(disconnect(connections, Head(disconnected)), Tail(disconnected))

\* WebSocketManager.connect, from the /ws endpoint
WsConnect ==
    \E c \in Connections :
        /\ ws_open[c] = "new"
        /\ ws_open' = [ws_open EXCEPT ![c] = "open"]
        /\ active_connections' = Append(active_connections, c)
        /\ UNCHANGED <<notWs, bc, received>>

\* the client goes away
ClientClose ==
    \E c \in Connections :
        /\ ws_open[c] = "open"
        /\ ws_open' = [ws_open EXCEPT ![c] = "closed"]
        /\ UNCHANGED <<notWs, active_connections, bc, received>>

\* the /ws endpoint's receive loop sees WebSocketDisconnect
EndpointDisconnect ==
    \E c \in Connections :
        /\ ws_open[c] = "closed"
        /\ c \in Range(active_connections)
        /\ active_connections' = disconnect(active_connections, c)
        /\ UNCHANGED <<notWs, ws_open, bc, received>>

\* the loop of broadcast, run from a record r of call b up to its next
\* suspension: the iterator takes the next connection of the list and
\* send_json is called on it, where an open connection takes the message
\* and a closed one will raise; with the list exhausted the noted
\* connections are removed and the call returns
broadcast_loop(b, r) ==
    IF r.i < Len(active_connections)
    THEN LET connection == active_connections[r.i + 1]
         IN  /\ bc' = [bc EXCEPT ![b] = [r EXCEPT !.pc = "sending",
                                                  !.i = @ + 1,
                                                  !.connection = connection,
                                                  !.raises = (ws_open[connection] # "open")]]
             /\ received' = IF ws_open[connection] = "open"
                            THEN [received EXCEPT ![connection] = Append(@, b)]
                            ELSE received
             /\ UNCHANGED active_connections
    ELSE /\ active_connections' = disconnect_all(active_connections, r.disconnected)
         /\ bc' = [bc EXCEPT ![b] = [r EXCEPT !.pc = "done"]]
         /\ UNCHANGED received

\* a broadcast call starts and runs to its first send; calls are numbered
\* in the order they start
BroadcastStart(b) ==
    /\ bc[b].pc = "idle"
    /\ \A x \in Broadcasts : x < b => bc[x].pc # "idle"
    /\ broadcast_loop(b, [NoBroadcast EXCEPT !.at_start = Range(active_connections)])
    /\ UNCHANGED <<notWs, ws_open>>

\* the pending send returns or raises; an exception is caught and the
\* connection noted; the loop goes on
BroadcastResume(b) ==
    /\ bc[b].pc = "sending"
    /\ broadcast_loop(b, [bc[b] EXCEPT !.connection = 0,
                                       !.raises = FALSE,
                                       !.disconnected = IF bc[b].raises
                                                        THEN Append(@, bc[b].connection)
                                                        ELSE @])
    /\ UNCHANGED <<notWs, ws_open>>

(***************************************************************************)
(* monitor: the cluster overview query by query                            *)
(***************************************************************************)

NoRead == [pc |-> "idle", key |-> <<>>, total_agents |-> 0]

ReadInit == rd = NoRead

\* cluster_overview under with_cache, up to its first query: a hit is
\* returned; on a miss the agents are counted and the request waits for its
\* next query
OverviewBegin ==
    /\ rd.pc = "idle"
    /\ view.n < MaxReads
    /\ \E session \in SessionAddresses :
          LET cache_key == <<"cluster", "overview", "cluster_overview",
                             generate_cache_key(0, session)>>
              got == cache_get(cache, cache_key, m_now)
          IN  /\ cache' = got.cache
              /\ IF got.value # NoValue
                 THEN /\ view' = [n |-> view.n + 1, key |-> cache_key,
                                  value |-> got.value, hit |-> TRUE]
                      /\ UNCHANGED rd
                 ELSE /\ rd' = [pc |-> "reading", key |-> cache_key,
                                total_agents |-> Cardinality(DOMAIN agents)]
                      /\ UNCHANGED view
    /\ UNCHANGED <<notRead, heartbeatVars, ingestVars, alertVars, c_last>>

\* the remaining queries, the answer, and with_cache's cache.set
OverviewFinish ==
    /\ rd.pc = "reading"
    /\ LET result ==
               Response("overview",
                        <<rd.total_agents,
                          Cardinality({a \in DOMAIN agents : agents[a].status = "online"})>>)
       IN  /\ cache' = cache_set(cache, rd.key, result, ttl_views, m_now)
           /\ view' = [n |-> view.n + 1, key |-> rd.key, value |-> result, hit |-> FALSE]
    /\ rd' = NoRead
    /\ UNCHANGED <<notRead, heartbeatVars, ingestVars, alertVars, c_last>>

----------------------------------------------------------------------------
(* decision_engine.py: DecisionEngine.analyze_and_decide, line by line *)

\* calls of analyze_and_decide in one behaviour, lines of one LLM answer
MaxDecisions == 2
MaxLines == 2

\* a line of the answer: the prefix it starts with ("" for none of the
\* three) and the rest of it
LinePrefixes == {"DECISION:", "REASON:", "ANALYSIS:", ""}
Line(prefix, text) == [prefix |-> prefix, text |-> text]
LlmLines ==
    {Line("DECISION:", t) : t \in {"approve", "REJECT", "unsure"}}
        \cup {Line("REASON:", "safe"), Line("ANALYSIS:", "detail"), Line("", "text")}
LlmTexts == UNION {[1..n -> LlmLines] : n \in 1..MaxLines}
LlmErrors == {"API connection failed"}

\* what client.messages.create does: the text of the answer, or the
\* exception it raises
LlmAnswer(llm_output) == [error |-> "", llm_output |-> llm_output]
LlmRaises(e) == [error |-> e, llm_output |-> <<>>]
LlmResults == {LlmAnswer(o) : o \in LlmTexts} \cup {LlmRaises(e) : e \in LlmErrors}

\* str.upper on the texts of the model
upper(text) ==
    CASE text = "approve" -> "APPROVE"
      [] text = "unsure" -> "UNSURE"
      [] OTHER -> text

\* `word in text` for the upper-case texts of the model
contains(text, word) == text = word

\* analysis = None; a one-line analysis
NoAnalysis == <<Line("None", "")>>
unparsed == <<"cannot parse the LLM output">>
see_analysis == <<"see the analysis">>

\* the for loop of _parse_llm_response over the lines left
RECURSIVE parse_lines(_, _)
parse_lines(lines, acc) ==
    IF lines = <<>> THEN acc
    ELSE LET line == Head(lines)
             decision_text == upper(line.text)
             next ==
                 CASE line.prefix = "DECISION:" ->
                          [acc EXCEPT !.status =
                              IF contains(decision_text, "APPROVE") THEN "approved"
                              ELSE IF contains(decision_text, "REJECT") THEN "rejected"
                              ELSE @]
                   [] line.prefix = "REASON:" -> [acc EXCEPT !.reason = <<line.text>>]
                   [] line.prefix = "ANALYSIS:" ->
                          [acc EXCEPT !.analysis = <<Line("", line.text)>>]
                   [] OTHER -> acc
         IN  parse_lines(Tail(lines), next)

\* _parse_llm_response: (decision_status, reason, analysis)
parse_llm_response(llm_output) ==
    LET r == parse_lines(llm_output,
                         [status |-> "rejected", reason |-> unparsed,
                          analysis |-> NoAnalysis])
    IN  IF r.reason = unparsed /\ llm_output # <<>>
        THEN [r EXCEPT !.analysis = llm_output, !.reason = see_analysis]
        ELSE r

\* the Decision row analyze_and_decide adds
decision_row(llm) ==
    IF llm.error # ""
    THEN [status |-> "rejected", reason |-> <<"LLM analysis failed: ", llm.error>>,
          llm_analysis |-> NoAnalysis]
    ELSE LET r == parse_llm_response(llm.llm_output)
         IN  [status |-> r.status, reason |-> r.reason, llm_analysis |-> r.analysis]

NoCalls == [decisions |-> <<>>, calls |-> 0, last |-> LlmRaises("")]
EngineInit == de = NoCalls

\* analyze_and_decide: the LLM is called, the Decision added and committed
AnalyzeAndDecide ==
    /\ de.calls < MaxDecisions
    /\ \E llm \in LlmResults :
          de' = [decisions |-> Append(de.decisions, decision_row(llm)),
                 calls |-> de.calls + 1,
                 last |-> llm]
    /\ UNCHANGED notEngine

----------------------------------------------------------------------------
(* telegram_notifier.py: TelegramNotifier *)

\* calls of the notifier in one behaviour, alerts in one batch
MaxSends == 2
MaxAlerts == 2

TelegramSettings ==
    [enabled : BOOLEAN, bot_token : {"", "token"}, chat_id : {"", "chat"}]

\* how the request of one send ends: retry_async over the POST, and the
\* "ok" field of the body of a 2xx answer
TelegramOutcomes == [r : SendResults, ok : BOOLEAN]

\* __init__: self.enabled
notifier_enabled(settings) ==
    settings.enabled /\ settings.bot_token # "" /\ settings.chat_id # ""

\* send_message: what it returns and the POSTs it made
send_message(enabled, o) ==
    IF ~enabled
    THEN [success |-> FALSE, posts |-> 0]
    ELSE [success |-> o.r.result = "return" /\ o.ok, posts |-> o.r.calls]

\* send_alert formats the alert and sends the message
send_alert(enabled, o) == send_message(enabled, o)

\* send_batch_alerts over the alerts left, alert k ending as outs[k]
RECURSIVE send_batch_alerts(_, _, _)
send_batch_alerts(enabled, outs, acc) ==
    IF outs = <<>> THEN acc
    ELSE LET s == send_alert(enabled, Head(outs))
         IN  send_batch_alerts(enabled, Tail(outs),
                               [success_count |-> acc.success_count
                                                    + (IF s.success THEN 1 ELSE 0),
                                posts |-> acc.posts + s.posts])

NoSend == [op |-> "none", given |-> 0, success |-> FALSE, success_count |-> 0]
NoNotifier == [constructed |-> FALSE, enabled |-> FALSE, posts |-> 0, calls |-> 0,
               last |-> NoSend]
NotifierInit == tg = NoNotifier

\* TelegramNotifier(settings)
NewNotifier ==
    /\ ~tg.constructed
    /\ \E settings \in TelegramSettings :
          tg' = [tg EXCEPT !.constructed = TRUE, !.enabled = notifier_enabled(settings)]
    /\ UNCHANGED notNotifier

SendMessage ==
    /\ tg.constructed
    /\ tg.calls < MaxSends
    /\ \E o \in TelegramOutcomes :
          LET s == send_message(tg.enabled, o)
          IN  tg' = [tg EXCEPT !.posts = @ + s.posts, !.calls = @ + 1,
                               !.last = [op |-> "send_message", given |-> 1,
                                         success |-> s.success,
                                         success_count |-> 0]]
    /\ UNCHANGED notNotifier

SendAlert ==
    /\ tg.constructed
    /\ tg.calls < MaxSends
    /\ \E o \in TelegramOutcomes :
          LET s == send_alert(tg.enabled, o)
          IN  tg' = [tg EXCEPT !.posts = @ + s.posts, !.calls = @ + 1,
                               !.last = [op |-> "send_alert", given |-> 1,
                                         success |-> s.success,
                                         success_count |-> 0]]
    /\ UNCHANGED notNotifier

SendBatchAlerts ==
    /\ tg.constructed
    /\ tg.calls < MaxSends
    /\ \E n \in 0..MaxAlerts :
       \E outs \in [1..n -> TelegramOutcomes] :
          LET s == send_batch_alerts(tg.enabled, outs,
                                     [success_count |-> 0, posts |-> 0])
          IN  tg' = [tg EXCEPT !.posts = @ + s.posts, !.calls = @ + 1,
                               !.last = [op |-> "send_batch_alerts", given |-> n,
                                         success |-> FALSE,
                                         success_count |-> s.success_count]]
    /\ UNCHANGED notNotifier

----------------------------------------------------------------------------
(* Specifications *)

Init ==
    /\ QueueInit
    /\ SenderInit
    /\ RetryIdle
    /\ ProbeIdle
    /\ SchedInit
    /\ HeartbeatInit
    /\ IngestInit
    /\ AlertInit
    /\ CacheInit
    /\ WsInit
    /\ ReadInit
    /\ EngineInit
    /\ NotifierInit

SenderNext ==
    \/ Enqueue
    \/ CleanupOldItems
    \/ Start
    \/ ProcessBatch
    \/ LoopSleep
    \/ FlushIter
    \/ TaskStart
    \/ TaskResponse

Next ==
    \/ SenderNext
    \/ Crash

Spec == Init /\ [][Next]_vars

\* asyncio runs every ready task, every POST ends (the client's timeout),
\* and the application calls start()
LiveSpec ==
    /\ Init
    /\ [][SenderNext]_vars
    /\ WF_vars(Start)
    /\ WF_vars(ProcessBatch)
    /\ WF_vars(LoopSleep)
    /\ WF_vars(TaskStart)
    /\ WF_vars(TaskResponse)

\* a flush() whose tasks run and whose POSTs end (the client's timeout)
FlushSpec ==
    /\ Init
    /\ [][SenderNext]_vars
    /\ WF_vars(TaskStart)
    /\ WF_vars(TaskResponse)
    /\ WF_vars(FlushIter)

QueueNext ==
    \/ ApiEnqueue
    \/ MarkAsSending
    \/ MarkAsSent
    \/ MarkAsFailed
    \/ CleanupOldItems
    \/ Tick

QueueSpec == Init /\ [][QueueNext]_vars

\* the producer enqueues through an outage of the Monitor
BacklogNext ==
    \/ BacklogEnqueue
    \/ DeliverOldest

BacklogSpec == Init /\ [][BacklogNext]_vars

RetryNext ==
    \/ RetryCall
    \/ RetryFallThrough

InitRetry ==
    /\ QueueInit
    /\ SenderInit
    /\ RetryInit
    /\ ProbeIdle
    /\ SchedInit
    /\ HeartbeatInit
    /\ IngestInit
    /\ AlertInit
    /\ CacheInit
    /\ WsInit
    /\ ReadInit
    /\ EngineInit
    /\ NotifierInit

RetrySpec == InitRetry /\ [][RetryNext]_vars

ProbeNext ==
    \/ Analyze
    \/ Classify
    \/ FixNext
    \/ BuildReport
    \/ SendReport

InitProbe ==
    /\ QueueInit
    /\ SenderInit
    /\ RetryIdle
    /\ ProbeInit
    /\ SchedInit
    /\ HeartbeatInit
    /\ IngestInit
    /\ AlertInit
    /\ CacheInit
    /\ WsInit
    /\ ReadInit
    /\ EngineInit
    /\ NotifierInit

ProbeSpec == InitProbe /\ [][ProbeNext]_vars

SchedNext ==
    \/ SchedStart
    \/ SchedStop
    \/ pause_schedule
    \/ resume_schedule
    \/ ScheduledInspection
    \/ ManualExecute
    \/ CreateTask
    \/ ExecuteBegin
    \/ ExecuteEnd

SchedSpec == Init /\ [][SchedNext]_vars

HeartbeatNext ==
    \/ RegisterStandalone
    \/ HeartbeatBegin
    \/ HeartbeatFinish
    \/ SweepRead
    \/ SweepCommit
    \/ MonitorTick

HeartbeatSpec == Init /\ [][HeartbeatNext]_vars

IngestNext ==
    \/ RegisterAgent
    \/ IngestBegin
    \/ IngestCommit
    \/ IngestDecide
    \/ IngestAlerts

IngestSpec == Init /\ [][IngestNext]_vars

AlertNext ==
    \/ \E w \in Workers : AggBegin(w)
    \/ \E w \in Workers : AggCheck(w)
    \/ \E w \in Workers : AggCreate(w)
    \/ \E h \in StatusRequests : StatusSelect(h)
    \/ \E h \in StatusRequests : StatusCommit(h)
    \/ AlertTick

AlertSpec == Init /\ [][AlertNext]_vars

CacheNext ==
    \/ CacheSet
    \/ CacheGet
    \/ CacheDelete
    \/ CacheClear
    \/ CacheClearPattern
    \/ CacheTick

CacheSpec == Init /\ [][CacheNext]_vars

TopologyNext ==
    \/ ClusterRegister
    \/ DeleteAgent
    \/ ClusterTopology
    \/ MonitorTick

TopologySpec == Init /\ [][TopologyNext]_vars

ClusterNext ==
    \/ RegisterStandalone
    \/ DeleteAgent
    \/ HeartbeatBegin
    \/ HeartbeatFinish
    \/ ListAgents
    \/ GetAgent
    \/ ClusterOverview
    \/ ClusterTopology

ClusterSpec == Init /\ [][ClusterNext]_vars

OverviewNext ==
    \/ RegisterStandalone
    \/ DeleteAgent
    \/ OverviewBegin
    \/ OverviewFinish
    \/ MonitorTick

OverviewSpec == Init /\ [][OverviewNext]_vars

EngineNext == AnalyzeAndDecide

EngineSpec == Init /\ [][EngineNext]_vars

NotifierNext ==
    \/ NewNotifier
    \/ SendMessage
    \/ SendAlert
    \/ SendBatchAlerts

NotifierSpec == Init /\ [][NotifierNext]_vars


WsNext ==
    \/ WsConnect
    \/ ClientClose
    \/ EndpointDisconnect
    \/ \E b \in Broadcasts : BroadcastStart(b)
    \/ \E b \in Broadcasts : BroadcastResume(b)

WsSpec == Init /\ [][WsNext]_vars






----------------------------------------------------------------------------
(* Delivery: the local queue and its sender *)

AllRows == DOMAIN queue_items

InFlight(i) == {s \in Senders : i \in DOMAIN tasks[s] /\ tasks[s][i] = "sending"}

Held(i) == {s \in Senders : i \in DOMAIN tasks[s]}

\* C1: once the upload of a ProbeReport has failed, the report is held in the
\* local queue (as a pending item, later sent or failed), not lost.
C1_FailedUploadIsQueued ==
    p_upload = "failed" =>
        \E i \in AllRows : queue_items[i].payload = p_report

\* C2, the step: mark_as_failed(id, error) on an existing item adds exactly 1
\* to retry_count, records the error, and leaves the status failed if the new
\* count has reached max_retry_count and pending otherwise; the item is then
\* returned by get_pending_items exactly when the new count is below the cap.
C2_MarkAsFailedStep ==
    \A id \in AllRows : \A e \in SendOutcomes \ {Ok} :
        (queue_items' = mark_as_failed(queue_items, id, e)) =>
            /\ id \in DOMAIN queue_items'
            /\ queue_items'[id].retry_count = queue_items[id].retry_count + 1
            /\ queue_items'[id].last_error = e
            /\ queue_items'[id].status =
                  IF queue_items[id].retry_count + 1 >= max_retry_count
                  THEN "failed" ELSE "pending"
            /\ (id \in get_pending_items(queue_items', Cardinality(AllRows)))
                  <=> (queue_items[id].retry_count + 1 < max_retry_count)
            /\ \A j \in AllRows \ {id} : queue_items'[j] = queue_items[j]

\* C2, the consequence: an item that has failed max_retry_count times is in
\* no state returned by get_pending_items.
C2_ExhaustedNeverPending ==
    \A id \in AllRows :
        queue_items[id].retry_count >= max_retry_count =>
            id \notin get_pending_items(queue_items, Cardinality(AllRows))

\* C2: mark_as_failed increments retry_count by exactly 1 and records the
\* error; the status becomes failed at the cap and pending below it, so the
\* item is selected again below the cap and never at it.
C2_MarkAsFailed ==
    /\ [][C2_MarkAsFailedStep]_vars
    /\ []C2_ExhaustedNeverPending

C2_Witness ==
    \E a \in AllRows : \E b \in AllRows :
        /\ queue_items[a].status = "failed"
        /\ queue_items[a].retry_count = max_retry_count
        /\ queue_items[a].last_error # NoError
        /\ queue_items[b].status = "pending"
        /\ queue_items[b].retry_count = max_retry_count - 1
        /\ b \in get_pending_items(queue_items, Cardinality(AllRows))

C3_RetryCountMonotone ==
    \A i \in AllRows :
        i \in DOMAIN queue_items' =>
            queue_items'[i].retry_count >= queue_items[i].retry_count

C3_BoundedCycles ==
    \A i \in DOMAIN cycles : cycles[i] <= max_retry_count

C3_IsTerminal(i) ==
    i \in AllRows => queue_items[i].status \in Terminal

\* C3: retry_count of an item never decreases; while the sender loop runs
\* (no crash), the sender loop selects an item in at most max_retry_count
\* of its cycles, and every item in the queue reaches sent or failed.
C3_QueueProgress ==
    /\ [][C3_RetryCountMonotone]_vars
    /\ []C3_BoundedCycles
    /\ \A i \in 1..MaxQueued : (i \in AllRows) ~> C3_IsTerminal(i)

C3_Witness ==
    \E i \in AllRows :
        /\ cycles[i] = max_retry_count
        /\ queue_items[i].retry_count = max_retry_count
        /\ queue_items[i].status = "failed"

\* C4: an item left sending by a crash is re-attempted as if it were pending:
\* once the sender runs again and no task holds the item, get_pending_items
\* returns it to the next sender cycle.
C4_RecoveredSendingIsSelected ==
    \A i \in AllRows :
        (running /\ queue_items[i].status = "sending" /\ Held(i) = {}) =>
            i \in get_pending_items(queue_items, Cardinality(AllRows))

\* C5: the number of items in the queue never exceeds max_queue_size plus
\* the slack of 100.
C5_CapacityBound ==
    Cardinality(AllRows) <= max_queue_size + Slack

\* C6: at no time do two senders (the loop's batch and a flush) have a
\* delivery of the same item in flight.
C6_OneDeliveryInFlight ==
    \A i \in 1..lastrowid : Cardinality(InFlight(i)) <= 1

C7_DeletedOnlyWhenTerminal ==
    \A i \in AllRows :
        i \notin DOMAIN queue_items' => queue_items[i].status \in Terminal

\* C7: whatever the operation (enqueue's capacity pruning, cleanup_old_items),
\* an item that leaves the table was sent or failed in the state before; a
\* pending or sending item is never deleted.
C7_NoLossBeforeTerminal == [][C7_DeletedOnlyWhenTerminal]_vars

\* a row was deleted while an older row, still undelivered, was kept
C7_Witness ==
    \E gone \in 1..lastrowid : \E kept \in AllRows :
        /\ gone \notin AllRows
        /\ kept < gone
        /\ queue_items[kept].status \notin Terminal

----------------------------------------------------------------------------
(* retry_async *)

Calls == Len(r_hist)

HttpRetryable(e) ==
    /\ e.kind = "HTTPStatusError"
    /\ (500 <= e.code /\ e.code < 600) \/ e.code = 429

\* the retryable errors as the specification lists them: connect errors,
\* timeouts, network errors, HTTP 5xx and 429
ListedRetryable(e) ==
    \/ e.kind \in {"ConnectError", "ConnectTimeout", "ReadTimeout", "ReadError"}
    \/ HttpRetryable(e)

\* the same, and remote protocol errors
ListedOrProtocol(e) ==
    \/ ListedRetryable(e)
    \/ e.kind = "RemoteProtocolError"

\* what C8 says of a run of retry_async, given which errors count as
\* retryable: at most max_attempts calls; a return follows the first call
\* that succeeded; every call followed by another call ended in a retryable
\* error; a raise follows a non-retryable error or the max_attempts-th call,
\* and raises the error of the last call made.
RetryContract(Retryable(_)) ==
    /\ Calls <= r_max
    /\ \A k \in 1..(Calls - 1) : r_hist[k] # Ok /\ Retryable(r_hist[k])
    /\ (r_state = "loop" /\ Calls > 0) =>
          r_hist[Calls] # Ok /\ Retryable(r_hist[Calls]) /\ Calls < r_max
    /\ (r_state = "returned" /\ Calls > 0) => r_hist[Calls] = Ok
    /\ r_state = "raised" =>
          /\ Calls > 0
          /\ r_hist[Calls] # Ok
          /\ r_error = r_hist[Calls]
          /\ ~Retryable(r_hist[Calls]) \/ Calls = r_max

\* C8 as written: the retryable errors are connect errors, timeouts, network
\* errors, HTTP 5xx and 429.
C8_RetryAsListed == RetryContract(ListedRetryable)

\* C8, amended: retry_async calls the operation at most max_attempts times,
\* returns the first success, calls again only after a retryable error
\* (connect, timeout, network or remote protocol error, HTTP 5xx or 429),
\* stops at the first non-retryable error, and re-raises the last error.
C8_RetryAsync == RetryContract(ListedOrProtocol)

\* max_attempts calls were made, all failing with retryable errors, among
\* them a 429 and a remote protocol error
C8_Witness ==
    /\ r_state = "raised"
    /\ r_max > 1
    /\ Calls = r_max
    /\ r_hist[1] = Err("RemoteProtocolError", 0)
    /\ r_error = Err("HTTPStatusError", 429)

----------------------------------------------------------------------------
(* The inspection pipeline *)

Classified == p_pc \in {"fixing", "reported", "done"}

Shipped == p_pc \in {"reported", "done"}

\* the ordered rules as the specification states them
RuleLevel(issue) ==
    IF issue.severity = "critical" \/ issue.type = "unknown" THEN "L3"
    ELSE IF issue.type \in {"disk_space_low", "temp_files_cleanup",
                             "log_rotation_needed", "cache_cleanup",
                             "old_package_cleanup"} THEN "L1"
    ELSE "L2"

Places(bucket, n) == {j \in 1..Len(bucket) : bucket[j].n = n}

\* C9: every issue lands in exactly one bucket, the one the ordered rules
\* name (L3 for critical severity or type "unknown", also for L1 types; else
\* L1 for the L1 types; else L2), with its level overwritten by that tier.
C9_Classification ==
    Classified =>
        \A k \in 1..Len(p_issues) : \A L \in Levels :
            LET at == Places(p_classified[L], k)
            IN IF L = RuleLevel(p_issues[k])
               THEN /\ Cardinality(at) = 1
                    /\ \A j \in at :
                          p_classified[L][j] = [p_issues[k] EXCEPT !.level = L]
               ELSE at = {}

\* an L1-type issue of critical severity, sent in as L1, sits in L3 relabelled
\* L3, next to issues the threshold rules raised
C9_Witness ==
    /\ Classified
    /\ Len(p_issues) > 1
    /\ \E k \in 1..Len(p_issues) : \E j \in 1..Len(p_classified["L3"]) :
          /\ p_issues[k].type \in L1_ISSUE_TYPES
          /\ p_issues[k].severity = "critical"
          /\ p_issues[k].level = "L1"
          /\ p_classified["L3"][j].n = k
          /\ p_classified["L3"][j].level = "L3"

SomeIssueAt(level) == \E k \in 1..Len(p_issues) : RuleLevel(p_issues[k]) = level

Breach ==
    \/ p_metrics.cpu_percent > threshold_cpu_percent
    \/ p_metrics.memory_percent > threshold_memory_percent
    \/ p_metrics.disk_percent > threshold_disk_percent

\* C11: the report's status is critical iff some issue is L3; warning iff no
\* issue is L3 and some issue is L2 or some metric exceeds its threshold;
\* healthy in every other case.
C11_OverallStatus ==
    Shipped =>
        /\ p_report.status \in {"critical", "warning", "healthy"}
        /\ p_report.status = "critical" <=> SomeIssueAt("L3")
        /\ p_report.status = "warning" <=>
              ~SomeIssueAt("L3") /\ (SomeIssueAt("L2") \/ Breach)
        /\ p_report.status = "healthy" <=>
              ~SomeIssueAt("L3") /\ ~SomeIssueAt("L2") /\ ~Breach

\* a report is warning for an L2 issue alone, every metric sitting exactly on
\* its threshold
C11_Witness ==
    /\ Shipped
    /\ p_report.status = "warning"
    /\ ~Breach
    /\ p_metrics.cpu_percent = threshold_cpu_percent
    /\ SomeIssueAt("L2")

\* the only finding is disk usage 92 over threshold 90, and its fix succeeded
DiskOnlyFixed ==
    /\ Shipped
    /\ p_metrics.disk_percent = 92
    /\ Len(p_issues) = 1
    /\ p_issues[1].type = "disk_space_low"
    /\ Len(p_classified["L1"]) = 1
    /\ Len(p_fixed) = 1
    /\ p_fixed[1].result = "success"

\* C12: when the only finding is disk usage above its threshold, classified
\* L1 as disk_space_low, and the auto-fix succeeds, the shipped report has no
\* issues, one L1 action with result success, and status healthy.
C12_SelfHealedIsHealthy ==
    DiskOnlyFixed =>
        /\ p_report.issues = <<>>
        /\ Len(p_report.actions_taken) = 1
        /\ p_report.actions_taken[1].level = "L1"
        /\ p_report.actions_taken[1].action = "cleaned_disk_space"
        /\ p_report.actions_taken[1].result = "success"
        /\ p_report.status = "healthy"

----------------------------------------------------------------------------
(* The inspection scheduler *)

Issued == 1..s_issued

RunsInProgress(unforced_only) ==
    {i \in Issued : s_phase[i] = "running" /\ (unforced_only => ~s_force[i])}

\* C13: at most one inspection is in progress at any time; two unforced calls
\* of execute_once (cron or manual) never both start runs that overlap.
C13_OneInspectionAtATime == Cardinality(RunsInProgress(TRUE)) <= 1

IsPrefix(a, b) == Len(a) <= Len(b) /\ a = SubSeq(b, 1, Len(a))

\* C14: for every execution id the statuses its result takes are pending,
\* then running, then exactly one of completed, failed, timeout, which never
\* changes, and the result in the history carries that terminal status.
C14_StatusSequence ==
    /\ \A i \in Issued :
          \E t \in {"completed", "failed", "timeout"} :
              IsPrefix(ex_trace[i], <<"pending", "running", t>>)
    /\ \A k \in 1..Len(execution_history) :
          LET r == execution_history[k]
          IN /\ r.status \in {"completed", "failed", "timeout"}
             /\ r.status = ex_trace[r.execution_id][Len(ex_trace[r.execution_id])]

----------------------------------------------------------------------------
(* The heartbeat endpoints and the heartbeat checker *)

Known == DOMAIN agents

\* the threshold of the sweep that ends in this step
EndingThreshold ==
    IF sw.pc = "commit" THEN sw.threshold ELSE m_now - timeout_minutes

\* C15: after one sweep with no concurrent writes an agent is online iff it
\* was online before and its last_heartbeat is non-null and not older than
\* now minus the timeout; offline agents stay offline; no health_status or
\* last_heartbeat is changed.
C15_SweepStep ==
    (sw'.n = sw.n + 1 /\ ~sw.dirty) =>
        \A a \in Known :
            /\ a \in DOMAIN agents'
            /\ agents'[a].status = "online" <=>
                  /\ agents[a].status = "online"
                  /\ agents[a].last_heartbeat # Null
                  /\ agents[a].last_heartbeat >= EndingThreshold
            /\ agents'[a].health_status = agents[a].health_status
            /\ agents'[a].last_heartbeat = agents[a].last_heartbeat

C15_Sweep == [][C15_SweepStep]_vars

\* C16: for an agent that was online and sends no further heartbeat, once a
\* sweep has run after its timeout elapsed exactly one agent_status_changed
\* (online to offline) event has been published for it, and never a second.
C16_OneOfflineEvent ==
    \A a \in Known :
        /\ announced[a] <= 1
        /\ swept_stale[a] => announced[a] = 1

\* C17: a heartbeat for an existing agent leaves it online with
\* last_heartbeat at least the time processing began; a heartbeat for an
\* unknown agent id answers 404 and creates no agent.
C17_HeartbeatStep ==
    (hb.pc = "selecting" /\ hb'.pc # "selecting") =>
        IF hb.agent_id \in Known
        THEN /\ hb'.pc = "ok"
             /\ DOMAIN agents' = Known
             /\ agents'[hb.agent_id].status = "online"
             /\ agents'[hb.agent_id].last_heartbeat # Null
             /\ agents'[hb.agent_id].last_heartbeat >= hb.t_before
             /\ \A a \in Known \ {hb.agent_id} : agents'[a] = agents[a]
        ELSE /\ hb'.pc = "not_found"
             /\ agents' = agents

C17_Heartbeat == [][C17_HeartbeatStep]_vars

\* an offline agent's heartbeat was handled while the clock moved on, with
\* another agent id still unknown
C17_Witness ==
    /\ hb.pc = "ok"
    /\ hb.was = "offline"
    /\ agents[hb.agent_id].status = "online"
    /\ agents[hb.agent_id].last_heartbeat > hb.t_before
    /\ Known # AgentIds

\* C18: report ingest is atomic.  The step that ends the staging of a report
\* either changes neither table and answers 500, or appends the Report row
\* and, in the same step, leaves the agent's row online with the report's
\* status as health and the handler's time as last heartbeat (created if it
\* was missing, every other row untouched); staging itself changes no table,
\* no other step of the ingest adds a report row, and every report row's
\* agent has a row
C18_IngestStep ==
    LET a == ing.agent_id
    IN  /\ (ing.pc = "staged" /\ ing'.pc # "staged") =>
              \/ /\ agents' = agents
                 /\ reports' = reports
                 /\ ing'.response = "error500"
              \/ /\ reports' = Append(reports, [agent_id |-> a,
                                                status |-> ing.report.status,
                                                issues |-> ing.report.issues])
                 /\ DOMAIN agents' = DOMAIN agents \cup {a}
                 /\ agents'[a].status = "online"
                 /\ agents'[a].health_status = ing.report.status
                 /\ agents'[a].last_heartbeat = ing.now
                 /\ a \in DOMAIN agents =>
                       agents'[a].upstream_monitor_url = agents[a].upstream_monitor_url
                 /\ \A b \in DOMAIN agents \ {a} : agents'[b] = agents[b]
        /\ (ing'.pc = "staged" /\ ing.pc # "staged") =>
              agents' = agents /\ reports' = reports
        /\ reports' # reports => ing.pc = "staged"
        /\ \A i \in 1..Len(reports') : reports'[i].agent_id \in DOMAIN agents'

C18_AtomicIngest == [][C18_IngestStep]_vars

\* a report from an agent nobody registered has been committed: its row and
\* the agent's row, online, are both there
C18_Witness ==
    /\ ing.pc \in {"l2", "l3"}
    /\ ing.created
    /\ ing.report_id = Len(reports)
    /\ reports[ing.report_id].agent_id = ing.agent_id
    /\ agents[ing.agent_id].status = "online"
    /\ agents[ing.agent_id].health_status = ing.report.status

\* the Decisions listed for issue k of the report being answered, and what
\* the L2 loop did with that issue
ListedFor(k) == {i \in 1..Len(ing.l2_decisions) : ing.l2_decisions[i].issue = k}
LoggedFor(k) == {i \in 1..Len(ing.log) : ing.log[i].issue = k}
Answered == ing.pc = "done" /\ ing.response = "success"

\* how the Decision of issue k was routed: from the upstream after a forward
\* that succeeded, without a local LLM call; from the local engine after a
\* failed forward or without an upstream URL
Routed(k, e) ==
    LET d == ing.l2_decisions[CHOOSE i \in ListedFor(k) : TRUE]
    IN  IF ing.upstream_monitor_url # "" /\ e.forward = "ok"
        THEN /\ d.status = e.upstream.status
             /\ d.reason = e.upstream.reason
             /\ e.engine = "none"
        ELSE /\ e.engine = "decided"
             /\ d.status = e.local.status
             /\ d.reason = e.local.reason

\* C19 as stated: every L2 issue of an ingested report has exactly one
\* Decision listed in the response, routed as above
C19_OneDecisionPerIssue ==
    Answered =>
        \A k \in 1..Len(ing.report.issues) :
            ing.report.issues[k].level = "L2" =>
                /\ Cardinality(LoggedFor(k)) = 1
                /\ Cardinality(ListedFor(k)) = 1
                /\ Routed(k, ing.log[CHOOSE i \in LoggedFor(k) : TRUE])

\* C19, amended: in a response that reports success every L2 issue has at
\* most one Decision listed, and exactly one, routed as above, unless the
\* agent has no upstream URL and the local engine raised for that issue: then
\* none is listed for it
C19_DecisionPerIssue ==
    Answered =>
        \A k \in 1..Len(ing.report.issues) :
            ing.report.issues[k].level = "L2" =>
                /\ Cardinality(LoggedFor(k)) = 1
                /\ LET e == ing.log[CHOOSE i \in LoggedFor(k) : TRUE]
                   IN  IF ing.upstream_monitor_url = "" /\ e.engine = "raised"
                       THEN ListedFor(k) = {}
                       ELSE /\ Cardinality(ListedFor(k)) = 1
                            /\ Routed(k, e)

\* a report with two L2 issues from an agent with an upstream URL was
\* answered: the first Decision is the upstream's, the forward of the second
\* failed and its Decision is the local engine's
C19_Witness ==
    /\ Answered
    /\ ing.upstream_monitor_url # ""
    /\ Len(ing.log) = 2
    /\ ing.log[1].forward = "ok"
    /\ ing.log[2].forward = "failed"
    /\ Len(ing.l2_decisions) = 2
    /\ ing.l2_decisions[1].status = "approved"
    /\ ing.l2_decisions[2].source = "local"

\* C20: once the report row is committed, the request is answered with
\* success and the committed report_id, whatever fails in the dispatch that
\* follows the commit
C20_DispatchNotSurfaced ==
    (ing.pc = "done" /\ ing.report_id # 0) =>
        /\ ing.response = "success"
        /\ ing.report_id \in 1..Len(reports)
        /\ reports[ing.report_id].agent_id = ing.agent_id

\* alert i is open and was created inside the dedup window that ends at t
OpenInWindow(table, i, t) ==
    /\ table[i].status \in {"new", "acknowledged"}
    /\ table[i].created_at >= t - DEDUP_WINDOW_MINUTES

\* alert i was resolved and later written back to acknowledged (see C24)
Reopened(table, i) == table[i].status # "resolved" /\ table[i].resolved_at # Null

OpenFor(table, agent_id, type, t) ==
    {i \in 1..Len(table) : /\ table[i].agent_id = agent_id
                           /\ table[i].type = type
                           /\ OpenInWindow(table, i, t)}

AtMostOneOpen(table, t) ==
    \A i, j \in 1..Len(table) :
        (/\ i < j
         /\ table[i].agent_id = table[j].agent_id
         /\ table[i].type = table[j].type
         /\ OpenInWindow(table, i, t)
         /\ OpenInWindow(table, j, t))
            => Reopened(table, i) \/ Reopened(table, j)

\* C21: while ingests have been processed one after another, there is at
\* most one open alert per (agent, type) created inside the window (alerts
\* that a late acknowledge re-opened set aside); the duplicate check lets an
\* issue through exactly when its agent has no open alert of its type inside
\* the window, whatever other agents have and whatever lies before the window
C21_DedupStep ==
    ~agg_hist'.overlapped =>
        /\ AtMostOneOpen(alerts', m_now')
        /\ \A w \in Workers :
              (agg[w].pc = "check" /\ agg'[w] # agg[w]) =>
                  /\ alerts' = alerts
                  /\ agg'[w].pc = "create" <=>
                        OpenFor(alerts, agg[w].agent_id, Head(agg[w].issues), m_now) = {}

C22_CreateStep ==
    \A w \in Workers :
        (agg[w].pc = "create" /\ agg'[w] # agg[w]) =>
            /\ Len(alerts') = Len(alerts) + 1
            /\ alerts'[Len(alerts')].agent_id = agg[w].agent_id
            /\ alerts'[Len(alerts')].type = Head(agg[w].issues)
            /\ alerts'[Len(alerts')].status = "new"

C22_AdvisoryDedup == [][C22_CreateStep]_vars

\* two overlapping ingests have each created an alert: two open alerts of
\* one (agent, type) inside the window, neither of them re-opened
C22_Witness ==
    /\ agg_hist.overlapped
    /\ Len(alerts) = 2
    /\ alerts[1].agent_id = alerts[2].agent_id
    /\ alerts[1].type = alerts[2].type
    /\ alerts[1].status = "new"
    /\ alerts[2].status = "new"
    /\ OpenInWindow(alerts, 1, m_now)
    /\ OpenInWindow(alerts, 2, m_now)

\* C24: alert status only moves forward.  In every step each alert keeps its
\* status or goes from new to acknowledged (acknowledged_by recorded), or
\* from new or acknowledged to resolved (resolved_at recorded); a request
\* answered with an error changes no alert
C24_StatusStep ==
    /\ \A i \in 1..Len(alerts) :
          \/ alerts'[i] = alerts[i]
          \/ /\ alerts[i].status = "new"
             /\ alerts'[i].status = "acknowledged"
             /\ alerts'[i].acknowledged_by # "none"
          \/ /\ alerts[i].status \in {"new", "acknowledged"}
             /\ alerts'[i].status = "resolved"
             /\ alerts'[i].resolved_at # Null
    /\ (agg_hist'.requests # agg_hist.requests /\ agg_hist'.response \in {"400", "404", "500"})
          => alerts' = alerts

AlertsDone == ing.pc = "l3" /\ ing'.pc = "done" /\ ing'.response = "success"

\* C23: every committed ingest adds a Report row; an ingest all of whose L3
\* issues already have an open alert of the agent inside the window (as after
\* an ingest of the same report) creates no alert, answers
\* l3_alerts_triggered = 0 and calls no notifier; the notifier is called
\* exactly when the ingest created an alert, and the count in the response is
\* the number of alerts it created
C23_IngestStep ==
    /\ (ing.pc = "staged" /\ ing'.pc \in {"l2", "l3"}) =>
          Len(reports') = Len(reports) + 1
    /\ AlertsDone =>
          /\ ing'.l3_alerts = Len(alerts') - Len(alerts)
          /\ ing'.notified # "none" <=> Len(alerts') > Len(alerts)
          /\ (\A k \in 1..Len(ing.report.issues) :
                 ing.report.issues[k].level = "L3" =>
                     OpenFor(alerts, ing.agent_id, ing.report.issues[k].type, m_now) # {})
                => /\ alerts' = alerts
                   /\ ing'.l3_alerts = 0
                   /\ ing'.notified = "none"

C23_SameReportTwice == [][C23_IngestStep]_vars

\* the same report with an L3 issue was ingested twice: two Report rows, the
\* one alert of the first ingest, nothing triggered by the second
C23_Witness ==
    /\ ing.pc = "done"
    /\ ing.response = "success"
    /\ ing.report_id = 2
    /\ reports[1] = reports[2]
    /\ \E k \in 1..Len(ing.report.issues) : ing.report.issues[k].level = "L3"
    /\ Len(alerts) = 1
    /\ alerts[1].agent_id = ing.agent_id
    /\ ing.l3_alerts = 0
    /\ ing.notified = "none"

\* C29: a get of key k returns the value of the most recent set of k exactly
\* when no delete of k, clear or matching clear_pattern has followed that set
\* and the time is before its expiry; otherwise it returns None, and a get
\* that finds the entry expired removes it from the map.
Live(k) == k \in DOMAIN c_last /\ c_last[k].live
C29_GetStep ==
    view'.n = view.n + 1 =>
        LET k == view'.key
        IN  /\ (Live(k) /\ m_now < c_last[k].expires_at)
                  => view'.value = c_last[k].value
            /\ ~(Live(k) /\ m_now < c_last[k].expires_at)
                  => view'.value = NoValue
            /\ (Live(k) /\ m_now >= c_last[k].expires_at)
                  => k \notin DOMAIN cache'
C29_GetMostRecentSet == [][C29_GetStep]_vars
C29_Witness ==
    /\ view.hit
    /\ \E k \in DOMAIN c_last : c_last[k].live /\ k \notin DOMAIN cache
    /\ \E k \in DOMAIN c_last : ~c_last[k].live

\* the agent reached from a by n parent links; Null once the walk has ended
\* at a root or at an id that is not stored
RECURSIVE Ancestor(_, _)
Ancestor(a, n) ==
    IF n = 0 THEN a
    ELSE LET b == Ancestor(a, n - 1)
         IN  IF b \in DOMAIN agents THEN agents[b].parent_id ELSE Null

RootAt(a, n) ==
    /\ Ancestor(a, n) \in DOMAIN agents
    /\ agents[Ancestor(a, n)].parent_id = Null

Revisits(a) ==
    \E i \in 0..MaxAgents, j \in 0..MaxAgents :
        i < j /\ Ancestor(a, i) # Null /\ Ancestor(a, i) = Ancestor(a, j)

ReachesMissing(a) ==
    \E i \in 0..MaxAgents : Ancestor(a, i) # Null /\ Ancestor(a, i) \notin DOMAIN agents

\* a step in which the topology is computed from the store
TopologyComputed ==
    view'.n = view.n + 1 /\ view'.value.view = "topology" /\ ~view'.hit

\* C25, as stated: every agent's level is the number of parent links to a
\* root, or -1, and -1 only when the parent walk revisits an agent.
C25_OnlyCycleStep ==
    TopologyComputed =>
        \A a \in DOMAIN agents :
            LET level == view'.value.data[a]
            IN  \/ level >= 0 /\ RootAt(a, level)
                \/ level = -1 /\ Revisits(a)
C25_LevelStep ==
    TopologyComputed =>
        \A a \in DOMAIN agents :
            LET level == view'.value.data[a]
            IN  \/ level >= 0 /\ RootAt(a, level) /\ ~Revisits(a) /\ ~ReachesMissing(a)
                \/ level = -1 /\ (Revisits(a) \/ ReachesMissing(a))
C26_ParentsExistAcyclic ==
    \A a \in DOMAIN agents :
        /\ agents[a].parent_id = Null \/ agents[a].parent_id \in DOMAIN agents
        /\ \E n \in 0..MaxAgents : RootAt(a, n)

\* what the view answered with v computes from the store now
Recomputed(v) ==
    IF v.view = "list" THEN list_agents(agents)
    ELSE IF v.view = "detail" THEN get_agent(agents, CHOOSE a \in DOMAIN v.data : TRUE)
    ELSE IF v.view = "overview" THEN cluster_overview(agents)
    ELSE cluster_topology(agents)

\* C30: after a committed registration, deletion or heartbeat that changes
\* an agent view, no entry stored before the write is returned: a read
\* answered from the cache returns what the store holds.
C30_ReadStep ==
    (view'.n = view.n + 1 /\ view'.hit) => view'.value = Recomputed(view'.value)
C30_WritesInvalidateViews == [][C30_ReadStep]_vars

\* connection c was subscribed when call b started and still is
SubscribedThroughout(b, c) ==
    c \in bc[b].at_start /\ c \in Range(active_connections)

\* C27: a send error on one subscriber does not keep the same event from
\* any other subscriber: when a broadcast call has returned, every
\* connection that was subscribed from its start to its end was handed the
\* event.
C27_OthersStillDelivered ==
    \A b \in Broadcasts :
        bc[b].pc = "done" =>
            \A c \in Connections : SubscribedThroughout(b, c) => b \in Range(received[c])

\* C28: each connection is handed the events in the order in which the
\* broadcast calls started.
C28_PerSubscriberFifo ==
    \A c \in Connections :
        \A i \in 1..Len(received[c]), j \in 1..Len(received[c]) :
            i < j => received[c][i] < received[c][j]

\* how often event b was handed to connection c
TimesReceived(c, b) == Cardinality({i \in 1..Len(received[c]) : received[c][i] = b})

\* C40: a connection that is subscribed and open from the start of a
\* broadcast call to its return is handed that event exactly once, whatever
\* other connections connect, disconnect or are dropped meanwhile.
C40_ExactlyOnce ==
    \A b \in Broadcasts : \A c \in Connections :
        (bc[b].pc = "done" /\ SubscribedThroughout(b, c) /\ ws_open[c] = "open")
            => TimesReceived(c, b) = 1

\* C39: with_cache does not store, after the invalidation of a write has
\* run, a value computed from the store before that write: where every
\* write invalidates as it commits, the overview that a read stores is the
\* overview of the store at that moment.
C39_StoreStep ==
    (rd.pc = "reading" /\ rd'.pc = "idle")
        => cache'[rd.key].value = cluster_overview(agents)
C39_NoStaleRepopulation == [][C39_StoreStep]_vars

\* C38: when the sweep commits, no agent it sets to offline has a fresh
\* heartbeat: each one's last_heartbeat is null or older than the timeout
\* threshold the sweep used, whatever heartbeat committed since its SELECT.
C38_CommitStep ==
    (sw.pc = "commit" /\ sw'.pc = "idle") =>
        \A a \in sw.offline_agents \cap DOMAIN agents' :
            agents'[a].status = "offline" =>
                \/ agents'[a].last_heartbeat = Null
                \/ agents'[a].last_heartbeat < sw.threshold
C37_RunningWhileAnyRuns == RunsInProgress(FALSE) # {} => is_running

\* a step of execute_once called by the cron job ("cron") or by POST
\* /execute ("manual")
ExecuteOnceStep(by) ==
    /\ schedule'.last = by
    /\ <<s_issued, s_last, schedule.last>>' # <<s_issued, s_last, schedule.last>>

PauseStep == schedule'.last = "pause" /\ schedule' # schedule
ResumeStep == schedule'.last = "resume" /\ schedule' # schedule

\* the parts of C34 that do not depend on the scheduler having its job
C34_CronAndManual ==
    /\ schedule.paused => ~CronDue
    /\ (ExecuteOnceStep("cron") /\ s_issued' = s_issued + 1) => ~schedule.paused
    /\ (ExecuteOnceStep("manual") /\ ~is_running)
          => (s_last' = "started" /\ s_issued' = s_issued + 1)

\* C34, as stated: after pause_schedule no scheduled inspection starts and
\* paused is true, a manual execute_once is accepted whenever no run is in
\* progress, and after resume_schedule scheduled inspections start again and
\* paused is false.
C34_PauseStep ==
    /\ C34_CronAndManual
    /\ PauseStep => (schedule'.paused /\ ~CronDue')
    /\ ResumeStep => (~schedule'.paused /\ (schedule'.running => CronDue'))
C34_PauseAlways == [][C34_PauseStep]_vars

\* C34, amended: the same for a running scheduler that has its cron job;
\* without one pause_schedule and resume_schedule change nothing.
C34_PauseWithJobStep ==
    /\ C34_CronAndManual
    /\ PauseStep =>
          IF schedule.running /\ schedule.job
          THEN schedule'.paused /\ ~CronDue'
          ELSE schedule'.paused = schedule.paused /\ CronDue' = CronDue
    /\ ResumeStep =>
          IF schedule.running /\ schedule.job
          THEN ~schedule'.paused /\ CronDue'
          ELSE schedule'.paused = schedule.paused /\ CronDue' = CronDue
C34_PauseOnlyCron == [][C34_PauseWithJobStep]_vars
C34_Witness ==
    /\ schedule.paused
    /\ schedule.running
    /\ schedule.last = "manual"
    /\ s_last = "started"
    /\ \E i \in Issued : s_phase[i] = "running"

HasLine(llm_output, prefix) ==
    \E i \in 1..Len(llm_output) : llm_output[i].prefix = prefix

\* C31: the decision is approved only when the LLM call succeeded and the
\* answer has a DECISION: line containing APPROVE; on an LLM error it is
\* rejected with the error text in the reason; on an answer with no DECISION
\* line or no REASON line it is rejected and llm_analysis is the raw answer;
\* every call persists exactly one Decision row.
C31_RejectUnlessApproved ==
    de.calls > 0 =>
        LET llm == de.last
            d == de.decisions[Len(de.decisions)]
        IN  /\ Len(de.decisions) = de.calls
            /\ d.status = "approved" =>
                  /\ llm.error = ""
                  /\ \E i \in 1..Len(llm.llm_output) :
                        /\ llm.llm_output[i].prefix = "DECISION:"
                        /\ contains(upper(llm.llm_output[i].text), "APPROVE")
            /\ llm.error # "" =>
                  /\ d.status = "rejected"
                  /\ llm.error \in Range(d.reason)
            /\ (/\ llm.error = ""
                /\ \/ ~HasLine(llm.llm_output, "DECISION:")
                   \/ ~HasLine(llm.llm_output, "REASON:")) =>
                  /\ d.status = "rejected"
                  /\ d.llm_analysis = llm.llm_output

\* C32: a send of a disabled notifier makes no request and reports
\* success: send_message and send_alert return true, send_batch_alerts
\* returns the number of alerts given.
C32_SendStep ==
    (tg'.calls = tg.calls + 1 /\ ~tg.enabled) =>
        /\ tg'.posts = tg.posts
        /\ tg'.last.op \in {"send_message", "send_alert"} => tg'.last.success
        /\ tg'.last.op = "send_batch_alerts" =>
              tg'.last.success_count = tg'.last.given
C32_DisabledSendsSucceed == [][C32_SendStep]_vars

C35_SentStep ==
    \A i \in AllRows :
        (queue_items[i].status = "sent" /\ i \in DOMAIN queue_items') =>
            /\ queue_items'[i].status = "sent"
            /\ queue_items'[i].retry_count = queue_items[i].retry_count

\* C35: once an item is sent no operation of a sender changes it: while it
\* is in the table its status stays sent and its retry_count stays the same,
\* however the sender loop and flush() interleave.
C35_SentIsFinal == [][C35_SentStep]_vars

\* C36: over its lifetime an item is POSTed at most max_retry_count times
\* the max_attempts of the fast retry profile.
C36_PostsBounded ==
    \A i \in DOMAIN posts : posts[i] <= max_retry_count * FastMaxAttempts

FlushReturns == sender_pc["flush"] = "gather" /\ sender_pc'["flush"] = "idle"

\* every item that was pending at the call is sent or failed, a failed one
\* having been selected by max_retry_count minus its prior retry_count passes
C33_Drained ==
    \A i \in DOMAIN fl.at_call \cap AllRows :
        /\ queue_items[i].status \in Terminal
        /\ fl.cycles[i] <= max_retry_count - fl.at_call[i]
        /\ queue_items[i].status = "failed" =>
              fl.cycles[i] = max_retry_count - fl.at_call[i]

C33_NonePending ==
    \A i \in AllRows :
        ~(queue_items[i].status = "pending"
            /\ queue_items[i].retry_count < max_retry_count)

\* C33, as stated: flush() terminates, and when it returns, no item having
\* been enqueued meanwhile, no item is pending below the cap and every item
\* that was pending at the call is sent or failed, an undeliverable one
\* after max_retry_count minus its prior retry_count attempts of the flush.
C33_ReturnStep ==
    FlushReturns => (C33_NonePending /\ (fl.no_enqueue => C33_Drained))
C33_FlushDrains ==
    /\ [][C33_ReturnStep]_vars
    /\ (sender_pc["flush"] = "gather") ~> (sender_pc["flush"] = "idle")

\* C33, amended: the same when, besides no enqueue, no batch of the sender
\* loop is in progress at the call or starts during the flush.
C33_ReturnAloneStep ==
    FlushReturns =>
        (C33_NonePending /\ ((fl.no_enqueue /\ fl.no_loop) => C33_Drained))
C33_FlushAloneDrains ==
    /\ [][C33_ReturnAloneStep]_vars
    /\ (sender_pc["flush"] = "gather") ~> (sender_pc["flush"] = "idle")

C33_Witness ==
    /\ sender_pc["flush"] = "idle"
    /\ fl.no_enqueue
    /\ fl.no_loop
    /\ \E i \in DOMAIN fl.at_call \cap AllRows :
          /\ queue_items[i].status = "failed"
          /\ fl.at_call[i] = 0
          /\ fl.cycles[i] = max_retry_count

====
